---- MODULE Spec2Model ----
(***************************************************************************)
(* Model of the insurance voice agent's dialogue engine (server/index.js   *)
(* in its complete variant, with the comparison sub-dialogue) and of       *)
(* premium.js.                                                             *)
(*                                                                         *)
(* Text is modelled as TLA+ strings, character by character.  TLA+ strings *)
(* are ASCII, so the three Slovenian letters with a caron are written with *)
(* the three ASCII letters the Slovenian alphabet does not use:            *)
(*      q stands for c-caron,  x for s-caron,  w for z-caron               *)
(* (Q, X, W for the capitals).  They are letters (\p{L}) but, like the     *)
(* real characters, not ASCII word characters (\w, \b).                    *)
(* null is -1 in a numeric field and "null" in a string field.             *)
(***************************************************************************)
EXTENDS Integers, Sequences, FiniteSets, TLC

\* ------------------------------------------------------------------------
\* Characters and regular-expression primitives
\* ------------------------------------------------------------------------

NullNum == -1
NullStr == "null"

DigitChars == "0123456789"
UpperAlphabet == "ABCDEFGHIJKLMNOPQRSTUVWXYZ"
LowerAlphabet == "abcdefghijklmnopqrstuvwxyz"

\* the characters of a string, as a set
CharsOf(s) == {SubSeq(s, i, i) : i \in 1..Len(s)}

\* the position of the character c in the string s
PosIn(s, c) == CHOOSE i \in 1..Len(s) : SubSeq(s, i, i) = c

Digits == CharsOf(DigitChars)
UpperLetters == CharsOf(UpperAlphabet)
LowerLetters == CharsOf(LowerAlphabet)
Letters == LowerLetters \cup UpperLetters
Carons == {"q", "x", "w", "Q", "X", "W"}
WordChars == (Letters \cup Digits \cup {"_"}) \ Carons

\* the value of a digit
DigitVal(c) == PosIn(DigitChars, c) - 1

\* the lower-case letter of a capital
LowerOf(c) == SubSeq(LowerAlphabet, PosIn(UpperAlphabet, c), PosIn(UpperAlphabet, c))

\* \p{L} (the model's alphabet has no combining marks, \p{M})
IsLetter(c) == c \in Letters
IsDigit(c) == c \in Digits
\* \s
IsSpace(c) == c = " "
\* \w : [A-Za-z0-9_], which the letters with a caron are not
IsWordCh(c) == c \in WordChars

\* the character at position i, "" outside the string
Ch(s, i) == IF i >= 1 /\ i <= Len(s) THEN SubSeq(s, i, i) ELSE ""

\* s.slice(i - 1)
From(s, i) == SubSeq(s, i, Len(s))

\* the literal k matches at position i
MatchAt(s, i, k) == i >= 1 /\ i + Len(k) - 1 <= Len(s) /\ SubSeq(s, i, i + Len(k) - 1) = k

\* String.prototype.includes / startsWith
Includes(s, k) == \E i \in 1..(Len(s) - Len(k) + 1) : MatchAt(s, i, k)
StartsWith(s, k) == MatchAt(s, 1, k)

\* \b between positions i-1 and i
WordBoundary(s, i) == IsWordCh(Ch(s, i - 1)) # IsWordCh(Ch(s, i))

\* the single element of a set.  The({e : x \in {v}}) is e with x bound to
\* the value of v, as "const x = v" binds it
The(S) == CHOOSE r \in S : TRUE

\* the smallest and the largest element of a non-empty set of positions
MinOf(S) == CHOOSE j \in S : \A h \in S : j <= h
MaxOf(S) == CHOOSE j \in S : \A h \in S : j >= h

\* the first and the last position of a set of positions, 0 if it is empty
FirstOf(S) == IF S = {} THEN 0 ELSE MinOf(S)
LastOf(S) == IF S = {} THEN 0 ELSE MaxOf(S)

\* the first position at or after i that holds no character of class P
RunEnd(s, i, P(_)) ==
  MinOf({j \in i..(Len(s) + 1) : ~P(Ch(s, j))})

\* Number("<digits>")
RECURSIVE StrToNat(_)
StrToNat(d) ==
  IF d = "" THEN 0
  ELSE 10 * StrToNat(SubSeq(d, 1, Len(d) - 1)) + DigitVal(Ch(d, Len(d)))

\* String.prototype.toLowerCase
RECURSIVE ToLower(_)
ToLower(s) ==
  IF s = "" THEN ""
  ELSE (IF Ch(s, 1) \in UpperLetters THEN LowerOf(Ch(s, 1)) ELSE Ch(s, 1)) \o ToLower(From(s, 2))

\* .replace(/[^<class>]/g, " ") : every character outside the set Keep becomes a space
RECURSIVE BlankOutside(_, _)
BlankOutside(s, Keep) ==
  IF s = "" THEN ""
  ELSE (IF Ch(s, 1) \in Keep THEN Ch(s, 1) ELSE " ") \o BlankOutside(From(s, 2), Keep)

\* .replace(/\s+/g, " ")
RECURSIVE CollapseSpaces(_)
CollapseSpaces(s) ==
  IF s = "" THEN ""
  ELSE IF IsSpace(Ch(s, 1)) /\ IsSpace(Ch(s, 2)) THEN CollapseSpaces(From(s, 2))
  ELSE Ch(s, 1) \o CollapseSpaces(From(s, 2))

\* s.replace(/\s+/g, "") left out
KeepSpaces(s) == s

\* .replace(/\s+/g, "")
RECURSIVE RemoveSpaces(_)
RemoveSpaces(s) ==
  IF s = "" THEN ""
  ELSE (IF IsSpace(Ch(s, 1)) THEN "" ELSE Ch(s, 1)) \o RemoveSpaces(From(s, 2))

\* String.prototype.trim
Trim(s) ==
  LET keep == {j \in 1..Len(s) : ~IsSpace(Ch(s, j))}
  IN IF keep = {} THEN "" ELSE SubSeq(s, MinOf(keep), MaxOf(keep))

\* a character that is not white space
IsNonSpace(c) == c # "" /\ ~IsSpace(c)

\* .split(" ").filter(Boolean) of a string
RECURSIVE Words(_)
Words(s) ==
  The({IF t = "" THEN <<>>
       ELSE The({<<SubSeq(t, 1, e - 1)>> \o Words(From(t, e)) : e \in {RunEnd(t, 1, IsNonSpace)}})
       : t \in {Trim(s)}})

\* table[key], NullNum if the table has no such key
Lookup(table, key) ==
  LET n == FirstOf({m \in 1..Len(table) : table[m][1] = key})
  IN IF n = 0 THEN NullNum ELSE table[n][2]

\* the length (at most maxD) of the run of digits that starts at position i
DigitRun(s, i, maxD) ==
  LET e == RunEnd(s, i, IsDigit) IN IF e - i > maxD THEN maxD ELSE e - i

\* ------------------------------------------------------------------------
\* Parsing helpers
\* ------------------------------------------------------------------------

TextChars == Letters \cup Digits \cup {" "}

\* .replace(/\bzdeset\b/gu, "deset")
RECURSIVE ReplaceZdeset(_)
ReplaceZdeset(s) ==
  The({IF i = 0 THEN s ELSE SubSeq(s, 1, i - 1) \o "deset" \o ReplaceZdeset(From(s, i + 6))
       : i \in {FirstOf({j \in 1..Len(s) : /\ MatchAt(s, j, "zdeset")
                                            /\ WordBoundary(s, j) /\ WordBoundary(s, j + 6)})}})

\* NFKC leaves every character of the model's alphabet as it is
cleanTextForNumber(s) ==
  Trim(CollapseSpaces(BlankOutside(ReplaceZdeset(ToLower(s)), TextChars)))

normalizeWord(w) == Trim(ToLower(w))

\* .replace(/u/g, "v")
RECURSIVE ReplaceUV(_)
ReplaceUV(s) ==
  IF s = "" THEN ""
  ELSE (IF Ch(s, 1) = "u" THEN "v" ELSE Ch(s, 1)) \o ReplaceUV(From(s, 2))

isWordLike(word, target) ==
  The({\/ w = t
       \/ StartsWith(w, SubSeq(t, 1, 3)) /\ Len(w) >= 3
       \/ ReplaceUV(w) = ReplaceUV(t)
       : w \in {normalizeWord(word)}, t \in {normalizeWord(target)}})

normYesNo(text) ==
  Trim(CollapseSpaces(BlankOutside(ToLower(text), TextChars)))

firstToken(text) ==
  The({IF ws = <<>> THEN "" ELSE ws[1] : ws \in {Words(normYesNo(text))}})

isAffirmative(text) ==
  The({\/ ft = "da" \/ ft = "ja"
       \/ StartsWith(t, "seveda")
       \/ StartsWith(t, "ok")
       \/ StartsWith(t, "lahko")
       \/ ft = "mhm" \/ ft = "mhmm"
       \/ ft = "valda"
       : t \in {normYesNo(text)}, ft \in {firstToken(text)}})

isNegative(text) ==
  The({\/ ft = "ne" \/ ft = "no"
       \/ StartsWith(t, "ne hvala")
       \/ StartsWith(t, "ni treba")
       \/ ft = "nic" \/ ft = "niq" \/ ft = "nc" \/ ft = "nq"
       : t \in {normYesNo(text)}, ft \in {firstToken(text)}})

ones == <<
  <<"niq", 0>>, <<"nic", 0>>, <<"nula", 0>>,
  <<"ena", 1>>, <<"en", 1>>, <<"eno", 1>>,
  <<"dva", 2>>, <<"dve", 2>>,
  <<"tri", 3>>,
  <<"xtiri", 4>>, <<"stiri", 4>>,
  <<"pet", 5>>,
  <<"xest", 6>>, <<"sest", 6>>,
  <<"sedem", 7>>,
  <<"osem", 8>>,
  <<"devet", 9>> >>

teens == <<
  <<"deset", 10>>,
  <<"enajst", 11>>,
  <<"dvanajst", 12>>,
  <<"trinajst", 13>>,
  <<"xtirinajst", 14>>, <<"stirinajst", 14>>,
  <<"petnajst", 15>>,
  <<"xestnajst", 16>>, <<"sestnajst", 16>>,
  <<"sedemnajst", 17>>,
  <<"osemnajst", 18>>,
  <<"devetnajst", 19>> >>

tens == <<
  <<"dvajset", 20>>,
  <<"trideset", 30>>,
  <<"xtirideset", 40>>, <<"stirideset", 40>>,
  <<"petdeset", 50>>, <<"petindeset", 50>>,
  <<"xestdeset", 60>>, <<"sestdeset", 60>>, <<"xezdeset", 60>>, <<"sezdeset", 60>>, <<"sestindeset", 60>>,
  <<"sedemdeset", 70>>, <<"sedemindeset", 70>>,
  <<"osemdeset", 80>>, <<"osemindeset", 80>>,
  <<"devetdeset", 90>>, <<"devetindeset", 90>> >>

hundreds == <<
  <<"devetsto", 900>>,
  <<"osemsto", 800>>,
  <<"sedemsto", 700>>,
  <<"xeststo", 600>>, <<"seststo", 600>>,
  <<"petsto", 500>>,
  <<"xtiristo", 400>>, <<"stiristo", 400>>,
  <<"tristo", 300>>,
  <<"dvesto", 200>>,
  <<"dve sto", 200>>,
  <<"sto", 100>> >>

\* ([\p{L}\p{M}]+)\b at position c : the longest run of letters that ends at a
\* word boundary, "" if there is none
LetterCapture(s, c) ==
  LET l == LastOf({n \in 1..(RunEnd(s, c, IsLetter) - c) : WordBoundary(s, c + n)})
  IN IF l = 0 THEN "" ELSE SubSeq(s, c, c + l - 1)

\* (?:\s+in\s+|\s+)?([\p{L}\p{M}]+)\b at position j : group 1 of the first
\* alternative that matches, "" if none does
AfterTensCapture(s, j) ==
  LET j1 == RunEnd(s, j, IsSpace)
      c1 == RunEnd(s, j1 + 2, IsSpace)
  IN The({IF viaIn # "" THEN viaIn
          ELSE IF viaSpace # "" THEN viaSpace
          ELSE LetterCapture(s, j)
          : viaIn \in {IF j1 > j /\ MatchAt(s, j1, "in") /\ c1 > j1 + 2
                         THEN LetterCapture(s, c1) ELSE ""},
            viaSpace \in {IF j1 > j THEN LetterCapture(s, j1) ELSE ""}})

\* s.match(/\bK\b(?:\s+in\s+|\s+)?([\p{L}\p{M}]+)\b/iu) : group 1, "" if no match
TensFollower(s, k) ==
  The({IF i = 0 THEN "" ELSE AfterTensCapture(s, i + Len(k))
       : i \in {FirstOf({j \in 1..Len(s) : /\ MatchAt(s, j, k)
                                            /\ WordBoundary(s, j) /\ WordBoundary(s, j + Len(k))
                                            /\ AfterTensCapture(s, j + Len(k)) # ""})}})

\* the units word before a word "deset": the positions in ws of such words
DesetPairs(ws) ==
  {i \in 1..(Len(ws) - 1) :
     /\ ws[i + 1] = "deset"
     /\ \/ Lookup(ones, ws[i]) # NullNum
        \/ isWordLike(ws[i], "devet")
        \/ isWordLike(ws[i], "osem")
        \/ isWordLike(ws[i], "sedem")}

parseBelow100(s) ==
  The({
    IF tn # 0 THEN
      The({IF on # 0 THEN tens[tn][2] + ones[on][2]
           ELSE IF w # "" /\ Lookup(ones, w) # NullNum THEN tens[tn][2] + Lookup(ones, w)
           ELSE IF w # "" /\ isWordLike(w, "devet") THEN tens[tn][2] + 9
           ELSE tens[tn][2]
           : on \in {FirstOf({n \in 1..Len(ones) :
                                Includes(RemoveSpaces(s), ones[n][1] \o "in" \o tens[tn][1])})},
             w \in {ToLower(TensFollower(s, tens[tn][1]))}})
    ELSE IF te # 0 THEN teens[te][2]
    ELSE IF pair # 0 THEN
      The({IF Lookup(ones, a) # NullNum THEN Lookup(ones, a) * 10
           ELSE IF isWordLike(a, "devet") THEN 90
           ELSE IF isWordLike(a, "osem") THEN 80
           ELSE 70
           : a \in {ws[pair]}})
    ELSE IF o1 # 0 THEN ones[o1][2]
    ELSE IF Len(ws) = 1 /\ isWordLike(ws[1], "devet") THEN 9
    ELSE NullNum
    : tn \in {FirstOf({n \in 1..Len(tens) : Includes(s, tens[n][1])})},
      te \in {FirstOf({n \in 1..Len(teens) : Includes(s, teens[n][1])})},
      ws \in {Words(s)},
      pair \in {FirstOf(DesetPairs(Words(s)))},
      o1 \in {FirstOf({n \in 1..Len(ones) : Includes(s, ones[n][1])})}})

\* joined.split(new RegExp(`\\b${hWord}\\b`, "iu"))[1] || ""
SplitSecond(joined, hWord) ==
  LET IsHit(i) == MatchAt(joined, i, hWord) /\ WordBoundary(joined, i) /\ WordBoundary(joined, i + Len(hWord))
  IN The({IF first = 0 THEN ""
          ELSE The({IF next = 0 THEN From(joined, first + Len(hWord))
                    ELSE SubSeq(joined, first + Len(hWord), next - 1)
                    : next \in {FirstOf({i \in (first + Len(hWord))..Len(joined) : IsHit(i)})}})
          : first \in {FirstOf({i \in 1..Len(joined) : IsHit(i)})}})

\* new RegExp(`(^|\\s)${hWord}(\\s|$)`, "iu").test(joined)
HundredTest(joined, hWord) ==
  \E i \in 1..Len(joined) :
    /\ MatchAt(joined, i, hWord)
    /\ (i = 1 \/ IsSpace(Ch(joined, i - 1)))
    /\ (i + Len(hWord) = Len(joined) + 1 \/ IsSpace(Ch(joined, i + Len(hWord))))

\* t.match(/\b(\d{1,4})\b/) : the position of the match, 0 if none
DigitToken(t) ==
  FirstOf({i \in 1..Len(t) : /\ IsDigit(Ch(t, i)) /\ WordBoundary(t, i)
                             /\ WordBoundary(t, i + DigitRun(t, i, 4))})

parseSlNumberRobust(text) ==
  The({
    The({IF d # 0 THEN StrToNat(SubSeq(t, d, d + DigitRun(t, d, 4) - 1))
         ELSE IF Words(t) = <<>> THEN NullNum
         ELSE IF hn # 0 THEN
           The({IF after = "" THEN hundreds[hn][2]
                ELSE The({IF rest # NullNum THEN hundreds[hn][2] + rest ELSE hundreds[hn][2]
                          : rest \in {parseBelow100(after)}})
                : after \in {Trim(SplitSecond(t, hundreds[hn][1]))}})
         ELSE parseBelow100(t)
         : d \in {DigitToken(t)},
           hn \in {FirstOf({n \in 1..Len(hundreds) : HundredTest(t, hundreds[n][1])})}})
    : t \in {cleanTextForNumber(text)}})

\* ------------------------------------------------------------------------
\* Entity extractors
\* ------------------------------------------------------------------------

\* (\d{minD,maxD})\s*(u1|u2|...)\b matched at position i : the number of digits
\* of group 1, 0 if there is no match at i
UnitNumberAt(t, i, minD, maxD, units) ==
  LastOf({n \in minD..maxD :
            /\ DigitRun(t, i, n) = n
            /\ \E u \in units :
                 LET j == RunEnd(t, i + n, IsSpace)
                 IN MatchAt(t, j, u) /\ WordBoundary(t, j + Len(u))})

\* t.match(/\b(\d{minD,maxD})\s*(u1|u2|...)\b/) : Number(m[1]), NullNum if no match
UnitNumber(t, minD, maxD, units) ==
  The({IF i = 0 THEN NullNum
       ELSE StrToNat(SubSeq(t, i, i + UnitNumberAt(t, i, minD, maxD, units) - 1))
       : i \in {FirstOf({j \in 1..Len(t) :
                           WordBoundary(t, j) /\ UnitNumberAt(t, j, minD, maxD, units) > 0})}})

\* /(\d{minD,maxD})\s*(u1|u2|...)\b/i.test(t)
UnitNumberTest(t, minD, maxD, units) ==
  \E i \in 1..Len(t) : UnitNumberAt(t, i, minD, maxD, units) > 0

\* prefix\w*\s*(\d{minD,maxD}) matched at position i : the position of group 1
\* (\w* gives back as few characters as the digits need), 0 if no match at i
PrefixNumberAt(t, i, prefix, minD, maxD) ==
  LET b == i + Len(prefix)
      j == LastOf({k \in b..RunEnd(t, b, IsWordCh) :
                     DigitRun(t, RunEnd(t, k, IsSpace), maxD) >= minD})
  IN IF ~MatchAt(t, i, prefix) \/ j = 0 THEN 0 ELSE RunEnd(t, j, IsSpace)

\* t.match(/prefix\w*\s*(\d{minD,maxD})/) : Number(m[1]), NullNum if no match
PrefixNumber(t, prefix, minD, maxD) ==
  The({IF i = 0 THEN NullNum
       ELSE The({StrToNat(SubSeq(t, k, k + DigitRun(t, k, maxD) - 1))
                 : k \in {PrefixNumberAt(t, i, prefix, minD, maxD)}})
       : i \in {FirstOf({j \in 1..Len(t) : PrefixNumberAt(t, j, prefix, minD, maxD) > 0})}})

AgeUnits == {"let", "leto", "leti", "letih", "lit", "lita", "liti"}
HpUnits == {"km", "konj", "konji", "konjev", "konjska"}

extractVehicleAge(text) ==
  The({
    The({IF m1 # NullNum THEN m1
         ELSE IF m2 # NullNum THEN m2
         ELSE IF n # NullNum /\ n >= 0 /\ n <= 40 THEN n
         ELSE NullNum
         : m1 \in {UnitNumber(t, 1, 2, AgeUnits)},
           m2 \in {PrefixNumber(t, "star", 1, 2)},
           n \in {parseSlNumberRobust(t)}})
    : t \in {cleanTextForNumber(text)}})

extractHorsepower(text) ==
  The({
    The({IF m1 # NullNum THEN m1
         ELSE IF m2 # NullNum THEN m2
         ELSE IF n # NullNum /\ n >= 20 /\ n <= 600 THEN n
         ELSE NullNum
         : m1 \in {UnitNumber(t, 2, 4, HpUnits)},
           m2 \in {PrefixNumber(t, "moq", 2, 4)},
           n \in {parseSlNumberRobust(t)}})
    : t \in {cleanTextForNumber(text)}})

normalizeCoverageLevel(s) ==
  The({IF Includes(t, "polni") THEN "polni_kasko"
       ELSE IF Includes(t, "delni") THEN "delni_kasko"
       ELSE IF Includes(t, "osnov") THEN "osnovno"
       ELSE NullStr
       : t \in {ToLower(s)}})

extractCoverageLevel(text, wantsPremium) ==
  The({IF norm # NullStr THEN norm
       ELSE IF Includes(t, "osnov") THEN "osnovno"
       ELSE IF Includes(t, "delni") THEN "delni_kasko"
       ELSE IF Includes(t, "polni") THEN "polni_kasko"
       ELSE IF wantsPremium /\ Includes(t, "kasko") THEN "polni_kasko"
       ELSE NullStr
       : norm \in {normalizeCoverageLevel(text)}, t \in {ToLower(text)}})

mentionsCoverage(text) ==
  The({Includes(t, "kasko") \/ Includes(t, "delni") \/ Includes(t, "polni") \/ Includes(t, "osnov")
       : t \in {ToLower(text)}})

isProbablyNotCityWord(raw) ==
  The({\/ Includes(t, "kasko") \/ Includes(t, "osnov")
       \/ t = "da" \/ t = "ne" \/ t = "ja"
       \/ Len(t) < 3
       : t \in {Trim(ToLower(raw))}})

CityChars == Letters \cup {"-", " "}
IsCityCh(c) == c \in Letters \cup {"-"}

Prepositions == {"v", "iz", "pri", "blizu", "okolica"}

cityNormMap == <<
  <<"kopru", "Koper">>, <<"koper", "Koper">>,
  <<"ljubljani", "Ljubljana">>, <<"ljubljana", "Ljubljana">>,
  <<"mariboru", "Maribor">>, <<"maribor", "Maribor">>,
  <<"celju", "Celje">>, <<"celje", "Celje">>,
  <<"kranju", "Kranj">>, <<"kranj", "Kranj">> >>

\* cityNormMap[key] || name
NormCity(key, name) ==
  LET n == FirstOf({m \in 1..Len(cityNormMap) : cityNormMap[m][1] = key})
  IN IF n = 0 THEN name ELSE cityNormMap[n][2]

\* \s+([\p{L}\p{M}\-]{3,}) at position j : the position after the token, 0 if no match
CityTokenEnd(raw, j) ==
  LET c == RunEnd(raw, j, IsSpace)
      e == RunEnd(raw, c, IsCityCh)
  IN IF c > j /\ e - c >= 3 THEN e ELSE 0

\* (?:\s+([\p{L}\p{M}\-]{3,}))? at position j : the position after the token,
\* j if there is none
OptionalCityToken(raw, j) ==
  The({IF e = 0 THEN j ELSE e : e \in {CityTokenEnd(raw, j)}})

\* \b(v|iz|pri|blizu|okolica)\s+([\p{L}\p{M}\-]{3,}) matched (case-insensitively)
\* at position i : the position after the preposition, 0 if no match
PrepositionAt(raw, i) ==
  The({IF ps = {} THEN 0 ELSE i + Len(The(ps))
       : ps \in {{p \in Prepositions : /\ WordBoundary(raw, i)
                                        /\ MatchAt(ToLower(raw), i, p)
                                        /\ CityTokenEnd(raw, i + Len(p)) > 0}}})

\* group 2, 3 and 4 of the preposition pattern, joined with " "
PrepositionCity(raw) ==
  The({IF i = 0 THEN ""
       ELSE The({CollapseSpaces(SubSeq(raw, RunEnd(raw, j, IsSpace),
                                       OptionalCityToken(raw, OptionalCityToken(raw, CityTokenEnd(raw, j))) - 1))
                 : j \in {PrepositionAt(raw, i)}})
       : i \in {FirstOf({k \in 1..Len(raw) : PrepositionAt(raw, k) > 0})}})

extractCity(text) ==
  The({
    The({
      IF \/ compact = "vseeno" \/ compact = "vseno" \/ compact = "karkoli" \/ compact = "kjerkoli"
         \/ Includes(t, "ni pomembno") \/ Includes(t, "nima veze")
      THEN "Other"
      ELSE IF mentionsCoverage(raw) \/ extractCoverageLevel(raw, FALSE) # NullStr THEN NullStr
      ELSE IF isProbablyNotCityWord(raw) THEN NullStr
      ELSE IF parseSlNumberRobust(t) # NullNum THEN NullStr
      ELSE IF Len(raw) >= 3 /\ \A i \in 1..Len(raw) : IsCityCh(Ch(raw, i)) THEN NormCity(t, raw)
      ELSE The({IF joined # "" THEN NormCity(ToLower(joined), joined) ELSE NullStr
                : joined \in {PrepositionCity(raw)}})
      : t \in {ToLower(raw)}, compact \in {RemoveSpaces(ToLower(raw))}})
    : raw \in {Trim(CollapseSpaces(BlankOutside(Trim(text), CityChars)))}})

\* ------------------------------------------------------------------------
\* Intent classification
\* ------------------------------------------------------------------------

\* /^word\b/.test(t)
OpensWith(t, word) == StartsWith(t, word) /\ WordBoundary(t, Len(word) + 1)

looksLikeInfoQuestion(text) ==
  The({\/ OpensWith(t, "kaj") \/ OpensWith(t, "kaj pomeni") \/ OpensWith(t, "kaj je")
       \/ OpensWith(t, "kako") \/ OpensWith(t, "kdaj") \/ OpensWith(t, "kje") \/ OpensWith(t, "zakaj")
       \/ Includes(t, "pomeni") \/ Includes(t, "razlika") \/ Includes(t, "krije")
       \/ Includes(t, "kritje") \/ Includes(t, "postopek") \/ Includes(t, "prijavim xkodo")
       \/ Includes(t, "odxkodnin") \/ Includes(t, "odskodnin") \/ Includes(t, "dokaz")
       \/ Includes(t, "kaj potrebujem") \/ Includes(t, "kaj rabim") \/ Includes(t, "kateri dokument")
       \/ Includes(t, "xkod") \/ Includes(t, "skod")
       : t \in {Trim(ToLower(text))}})

hasCalcWording(text) ==
  The({\/ Includes(t, "izraqun") \/ Includes(t, "izracun")
       \/ Includes(t, "izraqunaj") \/ Includes(t, "izracunaj")
       \/ Includes(t, "premija")
       \/ Includes(t, "koliko stane") \/ Includes(t, "koliko bi stal")
       \/ Includes(t, "cena") \/ Includes(t, "stroxek") \/ Includes(t, "stane")
       \/ Includes(t, "koliko pride")
       : t \in {ToLower(text)}})

hasAnyPremiumSlotHints(text) ==
  The({LET hasAge == UnitNumberTest(t, 1, 2, {"let", "leto", "leti", "letih", "lit"}) \/ Includes(t, "star ")
           hasHp == UnitNumberTest(t, 2, 4, HpUnits) \/ Includes(t, "konj")
           hasCity == \E i \in 1..Len(text) : PrepositionAt(text, i) > 0
       IN hasAge \/ hasHp \/ hasCity
       : t \in {ToLower(text)}})

wantsComparison(text) ==
  The({\/ Includes(t, "primerjaj") \/ Includes(t, "primerjava") \/ Includes(t, "primerjavo")
       \/ Includes(t, "daj xe")
       \/ Includes(t, "xe delni") \/ Includes(t, "xe polni") \/ Includes(t, "xe osnovno")
       \/ Includes(t, "namesto")
       \/ Includes(t, "tudi delni") \/ Includes(t, "tudi polni")
       : t \in {ToLower(text)}})

isNewPremiumRequest(text) ==
  The({LET hasAgeHint == UnitNumberTest(t, 1, 2, {"let", "leto", "leti", "letih", "lit"}) \/ Includes(t, "star ")
           hasHpHint == UnitNumberTest(t, 2, 4, HpUnits) \/ Includes(t, "konj")
           hasCityHint == \E i \in 1..Len(t), p \in Prepositions :
                            WordBoundary(t, i) /\ MatchAt(t, i, p) /\ IsSpace(Ch(t, i + Len(p)))
           hasVehicle == Includes(t, "avto") \/ Includes(t, "vozilo")
       IN hasVehicle /\ (hasAgeHint \/ hasHpHint \/ hasCityHint)
       : t \in {ToLower(text)}})

wantsNewVehicle(text) ==
  The({\/ Includes(t, "nov izraqun") \/ Includes(t, "nov izracun")
       \/ Includes(t, "novo vozilo")
       \/ Includes(t, "nov avto") \/ Includes(t, "novo avto")
       \/ Includes(t, "drugo vozilo") \/ Includes(t, "drug avto")
       : t \in {ToLower(text)}})

\* isLikelyAnswerToComparison that takes every transcript with a word in it
\* as an answer
isLikelyAnswerToComparisonAnyWord(text) == Trim(text) # ""

isLikelyAnswerToComparison(text) ==
  \/ isAffirmative(text)
  \/ isNegative(text)
  \/ extractCoverageLevel(text, TRUE) # NullStr
  \/ mentionsCoverage(text)

\* what the turn handler learns from a transcript: the result of every text
\* function it calls on it
Hears(text) ==
  [text |-> text,
   wantsNewVehicle |-> wantsNewVehicle(text),
   mentionsBoth |-> Includes(ToLower(text), "delni") /\ Includes(ToLower(text), "polni"),
   looksLikeInfoQuestion |-> looksLikeInfoQuestion(text),
   mentionsCoverage |-> mentionsCoverage(text),
   hasCalcWording |-> hasCalcWording(text),
   isLikelyAnswerToComparison |-> isLikelyAnswerToComparison(text),
   isAffirmative |-> isAffirmative(text),
   isNegative |-> isNegative(text),
   hasAnyPremiumSlotHints |-> hasAnyPremiumSlotHints(text),
   wantsComparison |-> wantsComparison(text),
   isNewPremiumRequest |-> isNewPremiumRequest(text),
   vehicleAge |-> extractVehicleAge(text),
   horsepower |-> extractHorsepower(text),
   city |-> extractCity(text),
   coverageLevel |-> extractCoverageLevel(text, TRUE)]

\* isPremiumIntent whose first test is "if (infoQ) return false"
isPremiumIntentInfoFirst(h, state) ==
  LET infoQ == h.looksLikeInfoQuestion
      calcW == h.hasCalcWording
      cov == h.mentionsCoverage
      slots == h.hasAnyPremiumSlotHints
      cmp == h.wantsComparison
  IN IF state.pendingComparison # <<>> THEN TRUE
     ELSE IF infoQ THEN FALSE
     ELSE IF calcW THEN TRUE
     ELSE IF cov /\ slots THEN TRUE
     ELSE IF cmp /\ state.lastPremium # <<>> THEN TRUE
     ELSE FALSE

isPremiumIntent(h, state) ==
  LET infoQ == h.looksLikeInfoQuestion
      calcW == h.hasCalcWording
      cov == h.mentionsCoverage
      slots == h.hasAnyPremiumSlotHints
      cmp == h.wantsComparison
  IN IF state.pendingComparison # <<>> THEN TRUE
     ELSE IF infoQ /\ ~calcW THEN FALSE
     ELSE IF calcW THEN TRUE
     ELSE IF cov /\ slots THEN TRUE
     ELSE IF cmp /\ state.lastPremium # <<>> THEN TRUE
     ELSE FALSE

\* ------------------------------------------------------------------------
\* Premium calculator (premium.js)
\* ------------------------------------------------------------------------

\* Number(x) of a number or null
ToNumber(x) == IF x = NullNum THEN 0 ELSE x

\* the validation of calculate_premium: the message of the error it throws,
\* "" if it throws none
calculate_premium_error(vehicleAge, horsepower, city, coverageLevel) ==
  LET age == ToNumber(vehicleAge)
      hp == ToNumber(horsepower)
      lvl == IF coverageLevel = NullStr THEN "" ELSE coverageLevel
  IN IF age < 0 THEN "vehicleAge must be a non-negative number"
     ELSE IF hp <= 0 THEN "horsepower must be a positive number"
     ELSE IF lvl = "" THEN "coverageLevel is required"
     ELSE ""

\* the bounds of a value: Math.max(lo, Math.min(hi, x))
Clamp(x, lo, hi) == IF x < lo THEN lo ELSE IF x > hi THEN hi ELSE x

\* The factors are decimal fractions; the model holds them exactly, as the
\* numerators over a fixed denominator.
\* ageFactor in hundredths: max(0.78, min(1.15, 1.10 - age * 0.02))
ageFactor(age) == Clamp(110 - 2 * age, 78, 115)

\* hpFactor in two-hundredths: max(0.85, min(1.60, 0.85 + hp / 200))
hpFactor(hp) == Clamp(170 + hp, 170, 320)

\* cityFactorMap in hundredths
cityFactorMap ==
  <<<<"ljubljana", 105>>, <<"maribor", 103>>, <<"koper", 102>>, <<"celje", 101>>, <<"kranj", 102>>>>

\* cityFactorMap[cityKey] || 1.0, in hundredths
cityFactor(city) ==
  The({IF \E n \in 1..Len(cityFactorMap) : cityFactorMap[n][1] = key
         THEN (CHOOSE e \in {cityFactorMap[n] : n \in 1..Len(cityFactorMap)} : e[1] = key)[2]
         ELSE 100
       : key \in {ToLower(IF city = NullStr \/ city = "" THEN "Other" ELSE city)}})

\* coverageFactorMap[lvl] ?? 1.0 with every factor 1.0
coverageFactorFlat(lvl) == 100

\* coverageFactorMap[lvl] ?? 1.0, in hundredths
coverageFactor(lvl) ==
  IF lvl = "osnovno" THEN 100
  ELSE IF lvl = "delni_kasko" THEN 128
  ELSE IF lvl = "polni_kasko" THEN 155
  ELSE 100

\* Math.round(base * ageFactor * hpFactor * cityFactor * coverageFactor) with
\* base 220: the exact product is p * q / 200000000 for p = 220 * ageFactor *
\* hpFactor and q = cityFactor * coverageFactor.  p * q does not fit 32 bits,
\* so the quotient by 10000 is formed from the two halves of p first.  (The
\* source multiplies doubles; its product differs from the exact one by less
\* than 0.000001, which moves Math.round by at most one, and only where the
\* exact product is that close to a half.)
annual_eur(vehicleAge, horsepower, city, coverageLevel) ==
  The({(((p \div 10000) * q + ((p % 10000) * q) \div 10000) + 10000) \div 20000
       : <<p, q>> \in {<<220 * ageFactor(ToNumber(vehicleAge)) * hpFactor(ToNumber(horsepower)),
                         cityFactor(city) * coverageFactor(coverageLevel)>>}})

\* Math.round(annual / 12)
monthly_eur(annual) == (annual + 6) \div 12

\* the result of calculate_premium when it does not throw
calculate_premium(vehicleAge, horsepower, city, coverageLevel) ==
  The({[annual_eur |-> a, monthly_eur |-> monthly_eur(a)]
       : a \in {annual_eur(vehicleAge, horsepower, city, coverageLevel)}})

\* ------------------------------------------------------------------------
\* Dialogue state
\* ------------------------------------------------------------------------

missingSlot(p) ==
  IF p.vehicleAge = NullNum THEN "vehicleAge"
  ELSE IF p.horsepower = NullNum THEN "horsepower"
  ELSE IF p.coverageLevel = NullStr THEN "coverageLevel"
  ELSE NullStr

\* an optional object is <<>> (null) or <<object>>
InitState ==
  [premium |-> <<>>, lastPremium |-> <<>>, comparedLevels |-> {}, pendingComparison |-> <<>>]

\* the session that getSession creates: the system message and the empty state
InitSession ==
  [messages |-> <<[role |-> "system", turn |-> 0]>>, state |-> InitState]

NoReply == [kind |-> "none", extra |-> "none", quote |-> <<>>]

\* the body of the status 500 response of the catch block
ErrorReply(message) == [kind |-> "error", extra |-> message, quote |-> <<>>]

TextReply(kind) == [kind |-> kind, extra |-> "none", quote |-> <<>>]

\* state.lastPremium?.field ?? null
LastField(state, field) ==
  IF state.lastPremium = <<>> THEN (IF field = "city" THEN NullStr ELSE NullNum)
  ELSE state.lastPremium[1][field]

\* the draft of an accepted comparison
ComparisonDraft(state, lvl) ==
  [vehicleAge |-> LastField(state, "vehicleAge"),
   horsepower |-> LastField(state, "horsepower"),
   city |-> LastField(state, "city"),
   coverageLevel |-> lvl,
   pendingSlot |-> NullStr]

\* NewVehicleReset without "state.premium = null"
NewVehicleResetKeepsDraft(state) ==
  [state EXCEPT !.lastPremium = <<>>, !.comparedLevels = {}, !.pendingComparison = <<>>]

NewVehicleReset(state) ==
  [state EXCEPT !.lastPremium = <<>>, !.comparedLevels = {},
                !.pendingComparison = <<>>, !.premium = <<>>]

\* ComparisonBlock whose negative branch also forgets the vehicle (lastPremium
\* and comparedLevels)
ComparisonBlockNoForgets(state, h) ==
  LET opts == state.pendingComparison[1].options
      saidLevel == h.coverageLevel
      dropped == [state EXCEPT !.pendingComparison = <<>>]
      InOpts(l) == \E n \in 1..Len(opts) : opts[n] = l
      Return(st, kind) == [state |-> st, returns |-> TRUE, accepted |-> FALSE, reply |-> TextReply(kind)]
      Accept(lvl) == [state |-> [dropped EXCEPT !.premium = <<ComparisonDraft(state, lvl)>>],
                      returns |-> FALSE, accepted |-> TRUE, reply |-> NoReply]
  IN IF Len(opts) = 2 /\ h.mentionsBoth THEN Return(state, "askOrder")
     ELSE IF h.looksLikeInfoQuestion /\ ~h.mentionsCoverage /\ ~h.hasCalcWording
       THEN [state |-> dropped, returns |-> FALSE, accepted |-> FALSE, reply |-> NoReply]
     ELSE IF ~h.isLikelyAnswerToComparison THEN Return(dropped, "unsure")
     ELSE IF saidLevel # NullStr /\ InOpts(saidLevel) THEN Accept(saidLevel)
     ELSE IF h.isNegative
       THEN Return([dropped EXCEPT !.lastPremium = <<>>, !.comparedLevels = {}], "closing")
     ELSE IF h.isAffirmative
       THEN IF Len(opts) = 1 THEN Accept(opts[1]) ELSE Return(state, "whichOne")
     ELSE Return(state, "recheck")

\* ComparisonBlock whose re-prompts (ask for the order, which one, recheck)
\* drop the offer
ComparisonBlockRepromptDrops(state, h) ==
  LET opts == state.pendingComparison[1].options
      saidLevel == h.coverageLevel
      dropped == [state EXCEPT !.pendingComparison = <<>>]
      InOpts(l) == \E n \in 1..Len(opts) : opts[n] = l
      Return(st, kind) == [state |-> st, returns |-> TRUE, accepted |-> FALSE, reply |-> TextReply(kind)]
      Accept(lvl) == [state |-> [dropped EXCEPT !.premium = <<ComparisonDraft(state, lvl)>>],
                      returns |-> FALSE, accepted |-> TRUE, reply |-> NoReply]
  IN IF Len(opts) = 2 /\ h.mentionsBoth THEN Return(dropped, "askOrder")
     ELSE IF h.looksLikeInfoQuestion /\ ~h.mentionsCoverage /\ ~h.hasCalcWording
       THEN [state |-> dropped, returns |-> FALSE, accepted |-> FALSE, reply |-> NoReply]
     ELSE IF ~h.isLikelyAnswerToComparison THEN Return(dropped, "unsure")
     ELSE IF saidLevel # NullStr /\ InOpts(saidLevel) THEN Accept(saidLevel)
     ELSE IF h.isNegative THEN Return(dropped, "closing")
     ELSE IF h.isAffirmative
       THEN IF Len(opts) = 1 THEN Accept(opts[1]) ELSE Return(dropped, "whichOne")
     ELSE Return(dropped, "recheck")

\* ComparisonBlock whose information-question branch leaves the offer in place
ComparisonBlockInfoKeepsOffer(state, h) ==
  LET opts == state.pendingComparison[1].options
      saidLevel == h.coverageLevel
      dropped == [state EXCEPT !.pendingComparison = <<>>]
      InOpts(l) == \E n \in 1..Len(opts) : opts[n] = l
      Return(st, kind) == [state |-> st, returns |-> TRUE, accepted |-> FALSE, reply |-> TextReply(kind)]
      Accept(lvl) == [state |-> [dropped EXCEPT !.premium = <<ComparisonDraft(state, lvl)>>],
                      returns |-> FALSE, accepted |-> TRUE, reply |-> NoReply]
  IN IF Len(opts) = 2 /\ h.mentionsBoth THEN Return(state, "askOrder")
     ELSE IF h.looksLikeInfoQuestion /\ ~h.mentionsCoverage /\ ~h.hasCalcWording
       THEN [state |-> state, returns |-> FALSE, accepted |-> FALSE, reply |-> NoReply]
     ELSE IF ~h.isLikelyAnswerToComparison THEN Return(dropped, "unsure")
     ELSE IF saidLevel # NullStr /\ InOpts(saidLevel) THEN Accept(saidLevel)
     ELSE IF h.isNegative THEN Return(dropped, "closing")
     ELSE IF h.isAffirmative
       THEN IF Len(opts) = 1 THEN Accept(opts[1]) ELSE Return(state, "whichOne")
     ELSE Return(state, "recheck")

\* the block that answers an outstanding comparison offer: the new state,
\* whether the offer was accepted and, if the block returns from the handler,
\* the reply it returns with
ComparisonBlock(state, h) ==
  LET opts == state.pendingComparison[1].options
      saidLevel == h.coverageLevel
      dropped == [state EXCEPT !.pendingComparison = <<>>]
      InOpts(l) == \E n \in 1..Len(opts) : opts[n] = l
      Return(st, kind) == [state |-> st, returns |-> TRUE, accepted |-> FALSE, reply |-> TextReply(kind)]
      Accept(lvl) == [state |-> [dropped EXCEPT !.premium = <<ComparisonDraft(state, lvl)>>],
                      returns |-> FALSE, accepted |-> TRUE, reply |-> NoReply]
  IN IF Len(opts) = 2 /\ h.mentionsBoth THEN Return(state, "askOrder")
     ELSE IF h.looksLikeInfoQuestion /\ ~h.mentionsCoverage /\ ~h.hasCalcWording
       THEN [state |-> dropped, returns |-> FALSE, accepted |-> FALSE, reply |-> NoReply]
     ELSE IF ~h.isLikelyAnswerToComparison THEN Return(dropped, "unsure")
     ELSE IF saidLevel # NullStr /\ InOpts(saidLevel) THEN Accept(saidLevel)
     ELSE IF h.isNegative THEN Return(dropped, "closing")
     ELSE IF h.isAffirmative
       THEN IF Len(opts) = 1 THEN Accept(opts[1]) ELSE Return(state, "whichOne")
     ELSE Return(state, "recheck")

NewPremiumReset(state) ==
  [state EXCEPT !.comparedLevels = {}, !.lastPremium = <<>>, !.pendingComparison = <<>>]

\* NewDraft that never prefills from lastPremium
NewDraftNoPrefill(state, newVehicleReq) ==
  [vehicleAge |-> NullNum, horsepower |-> NullNum, city |-> NullStr,
   coverageLevel |-> NullStr, pendingSlot |-> NullStr]

\* NewDraft that starts from the tier "osnovno"
NewDraftDefaultTier(state, newVehicleReq) ==
  LET allowPrefill == state.lastPremium # <<>> /\ ~newVehicleReq
  IN [vehicleAge |-> IF allowPrefill THEN state.lastPremium[1].vehicleAge ELSE NullNum,
      horsepower |-> IF allowPrefill THEN state.lastPremium[1].horsepower ELSE NullNum,
      city |-> IF allowPrefill THEN state.lastPremium[1].city ELSE NullStr,
      coverageLevel |-> "osnovno",
      pendingSlot |-> NullStr]

\* the draft created when the premium flow starts without one
NewDraft(state, newVehicleReq) ==
  LET allowPrefill == state.lastPremium # <<>> /\ ~newVehicleReq
  IN [vehicleAge |-> IF allowPrefill THEN state.lastPremium[1].vehicleAge ELSE NullNum,
      horsepower |-> IF allowPrefill THEN state.lastPremium[1].horsepower ELSE NullNum,
      city |-> IF allowPrefill THEN state.lastPremium[1].city ELSE NullStr,
      coverageLevel |-> NullStr,
      pendingSlot |-> NullStr]

\* ExtractSlots that runs every extractor whether or not a slot is pending
ExtractSlotsEveryTurn(p, h) ==
  [p EXCEPT !.vehicleAge = IF h.vehicleAge # NullNum THEN h.vehicleAge ELSE @,
            !.horsepower = IF h.horsepower # NullNum THEN h.horsepower ELSE @,
            !.city = IF h.city # NullStr THEN h.city ELSE @,
            !.coverageLevel = IF h.coverageLevel # NullStr THEN h.coverageLevel ELSE @]

\* slot extraction: the pending slot only, or every slot if none is pending
ExtractSlots(p, h) ==
  LET all == p.pendingSlot = NullStr
      age == IF all \/ p.pendingSlot = "vehicleAge" THEN h.vehicleAge ELSE NullNum
      hp == IF all \/ p.pendingSlot = "horsepower" THEN h.horsepower ELSE NullNum
      city == IF all THEN h.city ELSE NullStr
      lvl == IF all \/ p.pendingSlot = "coverageLevel" THEN h.coverageLevel ELSE NullStr
  IN [p EXCEPT !.vehicleAge = IF age # NullNum THEN age ELSE @,
               !.horsepower = IF hp # NullNum THEN hp ELSE @,
               !.city = IF city # NullStr THEN city ELSE @,
               !.coverageLevel = IF lvl # NullStr THEN lvl ELSE @]

\* FollowUpOptions without the filter on the tiers already compared
FollowUpOptionsUnfiltered(coverageLevel, comparedLevels) ==
  IF coverageLevel = "osnovno" THEN <<"delni_kasko", "polni_kasko">>
  ELSE IF coverageLevel = "delni_kasko" THEN <<"polni_kasko">>
  ELSE IF coverageLevel = "polni_kasko" THEN <<"delni_kasko">>
  ELSE <<>>

\* FollowUpOptions with the two tiers after "osnovno" in the other order
FollowUpOptionsPolniFirst(coverageLevel, comparedLevels) ==
  LET wantDelni == "delni_kasko" \notin comparedLevels
      wantPolni == "polni_kasko" \notin comparedLevels
  IN IF coverageLevel = "osnovno" THEN
       (IF wantPolni THEN <<"polni_kasko">> ELSE <<>>) \o (IF wantDelni THEN <<"delni_kasko">> ELSE <<>>)
     ELSE IF coverageLevel = "delni_kasko" THEN
       (IF wantPolni THEN <<"polni_kasko">> ELSE <<>>)
     ELSE IF coverageLevel = "polni_kasko" THEN
       (IF wantDelni THEN <<"delni_kasko">> ELSE <<>>)
     ELSE <<>>

\* FollowUpOptions that offers every tier not yet compared, osnovno included
FollowUpOptionsAnyTier(coverageLevel, comparedLevels) ==
  (IF "osnovno" \notin comparedLevels THEN <<"osnovno">> ELSE <<>>)
    \o (IF "delni_kasko" \notin comparedLevels THEN <<"delni_kasko">> ELSE <<>>)
    \o (IF "polni_kasko" \notin comparedLevels THEN <<"polni_kasko">> ELSE <<>>)

\* the tiers offered after a quote for coverageLevel, <<>> if none is offered
FollowUpOptions(coverageLevel, comparedLevels) ==
  LET wantDelni == "delni_kasko" \notin comparedLevels
      wantPolni == "polni_kasko" \notin comparedLevels
  IN IF coverageLevel = "osnovno" THEN
       (IF wantDelni THEN <<"delni_kasko">> ELSE <<>>) \o (IF wantPolni THEN <<"polni_kasko">> ELSE <<>>)
     ELSE IF coverageLevel = "delni_kasko" THEN
       (IF wantPolni THEN <<"polni_kasko">> ELSE <<>>)
     ELSE IF coverageLevel = "polni_kasko" THEN
       (IF wantDelni THEN <<"delni_kasko">> ELSE <<>>)
     ELSE <<>>

\* the tiers that the followUp text of a quote for coverageLevel names:
\* "... za delni ali polni kasko?", "... za polni kasko?", "... za delni
\* kasko?", or none ("Welite xe kaj? ...")
FollowUpNames(coverageLevel, comparedLevels) ==
  LET wantDelni == "delni_kasko" \notin comparedLevels
      wantPolni == "polni_kasko" \notin comparedLevels
  IN IF coverageLevel = "osnovno" THEN
       (IF wantDelni \/ wantPolni THEN {"delni_kasko", "polni_kasko"} ELSE {})
     ELSE IF coverageLevel = "delni_kasko" THEN
       (IF wantPolni THEN {"polni_kasko"} ELSE {})
     ELSE IF coverageLevel = "polni_kasko" THEN
       (IF wantDelni THEN {"delni_kasko"} ELSE {})
     ELSE {}

\* the tiers that the fixed reply texts of the comparison block name: all but
\* the closing after a negative answer name "delni" and "polni kasko"
PromptNames(kind) ==
  IF kind \in {"askOrder", "unsure", "whichOne", "recheck"} THEN {"delni_kasko", "polni_kasko"}
  ELSE {}

\* EmitQuote without "state.premium = null"
EmitQuoteKeepsDraft(state, p) ==
  LET compared == state.comparedLevels \cup {p.coverageLevel}
      pendingOptions == FollowUpOptions(p.coverageLevel, compared)
  IN [state EXCEPT
        !.comparedLevels = compared,
        !.lastPremium = <<[vehicleAge |-> p.vehicleAge, horsepower |-> p.horsepower, city |-> p.city]>>,
        !.pendingComparison = IF pendingOptions # <<>> THEN <<[options |-> pendingOptions]>> ELSE <<>>]

\* EmitQuote with "state.comparedLevels = new Set([p.coverageLevel])" for
\* "state.comparedLevels.add(p.coverageLevel)"
EmitQuoteForgets(state, p) ==
  LET compared == {p.coverageLevel}
      pendingOptions == FollowUpOptions(p.coverageLevel, compared)
  IN [state EXCEPT
        !.comparedLevels = compared,
        !.lastPremium = <<[vehicleAge |-> p.vehicleAge, horsepower |-> p.horsepower, city |-> p.city]>>,
        !.premium = <<>>,
        !.pendingComparison = IF pendingOptions # <<>> THEN <<[options |-> pendingOptions]>> ELSE <<>>]

\* EmitQuote with "state.lastPremium = { ...p }", the whole draft
EmitQuoteLastIsDraft(state, p) ==
  LET compared == state.comparedLevels \cup {p.coverageLevel}
      pendingOptions == FollowUpOptions(p.coverageLevel, compared)
  IN [state EXCEPT
        !.comparedLevels = compared,
        !.lastPremium = <<p>>,
        !.premium = <<>>,
        !.pendingComparison = IF pendingOptions # <<>> THEN <<[options |-> pendingOptions]>> ELSE <<>>]

\* quote emission for the complete draft p (its city already defaulted)
EmitQuote(state, p) ==
  LET compared == state.comparedLevels \cup {p.coverageLevel}
      pendingOptions == FollowUpOptions(p.coverageLevel, compared)
  IN [state EXCEPT
        !.comparedLevels = compared,
        !.lastPremium = <<[vehicleAge |-> p.vehicleAge, horsepower |-> p.horsepower, city |-> p.city]>>,
        !.premium = <<>>,
        !.pendingComparison = IF pendingOptions # <<>> THEN <<[options |-> pendingOptions]>> ELSE <<>>]

\* PremiumFlow that updates the state (lines 755-804) before it calls
\* calculate_premium, so that a throwing calculator leaves the offer behind
PremiumFlowOffersBeforeCalculate(state, h) ==
  The({
    IF missingSlot(p) # NullStr
      THEN [state |-> [state EXCEPT !.premium = <<[p EXCEPT !.pendingSlot = missingSlot(p)]>>],
            next |-> "tts",
            reply |-> [kind |-> "askSlot", extra |-> "premium", quote |-> <<>>]]
    ELSE The({
      IF calculate_premium_error(full.vehicleAge, full.horsepower, full.city, full.coverageLevel) # ""
        THEN [state |-> EmitQuote(state, full), next |-> "throw",
              reply |-> ErrorReply(calculate_premium_error(full.vehicleAge, full.horsepower,
                                                           full.city, full.coverageLevel))]
      ELSE The({
        [state |-> after, next |-> "tts",
         reply |-> [kind |-> "quote", extra |-> "premiumResult",
                    quote |-> <<[coverageLevel |-> full.coverageLevel, vehicleAge |-> full.vehicleAge,
                                 horsepower |-> full.horsepower, city |-> full.city,
                                 offer |-> after.pendingComparison,
                                 followUp |-> FollowUpNames(full.coverageLevel, after.comparedLevels)]>>]]
        : after \in {EmitQuote(state, full)}})
      : full \in {[p EXCEPT !.city = IF @ = NullStr THEN "Other" ELSE @]}})
    : p \in {ExtractSlots(state.premium[1], h)}})

\* the premium flow on the state that already holds a draft
PremiumFlow(state, h) ==
  The({
    IF missingSlot(p) # NullStr
      THEN [state |-> [state EXCEPT !.premium = <<[p EXCEPT !.pendingSlot = missingSlot(p)]>>],
            next |-> "tts",
            reply |-> [kind |-> "askSlot", extra |-> "premium", quote |-> <<>>]]
    ELSE The({
      IF calculate_premium_error(full.vehicleAge, full.horsepower, full.city, full.coverageLevel) # ""
        THEN [state |-> [state EXCEPT !.premium = <<full>>], next |-> "throw",
              reply |-> ErrorReply(calculate_premium_error(full.vehicleAge, full.horsepower,
                                                           full.city, full.coverageLevel))]
      ELSE The({
        [state |-> after, next |-> "tts",
         reply |-> [kind |-> "quote", extra |-> "premiumResult",
                    quote |-> <<[coverageLevel |-> full.coverageLevel, vehicleAge |-> full.vehicleAge,
                                 horsepower |-> full.horsepower, city |-> full.city,
                                 offer |-> after.pendingComparison,
                                 followUp |-> FollowUpNames(full.coverageLevel, after.comparedLevels)]>>]]
        : after \in {EmitQuote(state, full)}})
      : full \in {[p EXCEPT !.city = IF @ = NullStr THEN "Other" ELSE @]}})
    : p \in {ExtractSlots(state.premium[1], h)}})

\* AfterComparison that routes by the intent alone: "if (wantsPremium)" for
\* "if (inPremiumFlow || wantsPremium)"
AfterComparisonByIntent(s2, h, did) ==
  LET inPremiumFlow == s2.premium # <<>>
      wantsPremium == isPremiumIntent(h, s2)
      newPremiumReq == wantsPremium /\ ~inPremiumFlow /\ h.isNewPremiumRequest
      done == did \cup (IF newPremiumReq THEN {"newPremium"} ELSE {})
  IN The({
       IF wantsPremium
         THEN The({[state |-> pf.state, next |-> pf.next, reply |-> pf.reply, did |-> done]
                   : pf \in {PremiumFlow(
                               IF s3.premium = <<>>
                                 THEN [s3 EXCEPT !.premium = <<NewDraft(s3, "newVehicle" \in did)>>]
                                 ELSE s3, h)}})
       ELSE [state |-> s3, next |-> "llm", reply |-> NoReply, did |-> done]
       : s3 \in {IF newPremiumReq THEN NewPremiumReset(s2) ELSE s2}})

\* POST /turn after the comparison block, on the state s2 it left
AfterComparison(s2, h, did) ==
  LET inPremiumFlow == s2.premium # <<>>
      wantsPremium == isPremiumIntent(h, s2)
      newPremiumReq == wantsPremium /\ ~inPremiumFlow /\ h.isNewPremiumRequest
      done == did \cup (IF newPremiumReq THEN {"newPremium"} ELSE {})
  IN The({
       IF inPremiumFlow \/ wantsPremium
         THEN The({[state |-> pf.state, next |-> pf.next, reply |-> pf.reply, did |-> done]
                   : pf \in {PremiumFlow(
                               IF s3.premium = <<>>
                                 THEN [s3 EXCEPT !.premium = <<NewDraft(s3, "newVehicle" \in did)>>]
                                 ELSE s3, h)}})
       ELSE [state |-> s3, next |-> "llm", reply |-> NoReply, did |-> done]
       : s3 \in {IF newPremiumReq THEN NewPremiumReset(s2) ELSE s2}})

\* the synchronous part of POST /turn between the return of the transcription
\* and the next collaborator call: the new state, where the handler goes next
\* ("tts", "llm", or "throw" into the catch block), the reply text, and which
\* of the new-vehicle reset, the new-premium-request reset and the acceptance
\* of a comparison the turn went through
TurnState(state0, h) ==
  LET newVehicleReq == h.wantsNewVehicle
      did == IF newVehicleReq THEN {"newVehicle"} ELSE {}
  IN The({
       The({
         IF cb.returns THEN [state |-> cb.state, next |-> "tts", reply |-> cb.reply, did |-> did]
         ELSE AfterComparison(cb.state, h, did \cup (IF cb.accepted THEN {"accepted"} ELSE {}))
         : cb \in {IF s1.pendingComparison # <<>> THEN ComparisonBlock(s1, h)
                   ELSE [state |-> s1, returns |-> FALSE, accepted |-> FALSE, reply |-> NoReply]}})
       : s1 \in {IF newVehicleReq THEN NewVehicleReset(state0) ELSE state0}})

\* ------------------------------------------------------------------------
\* The server: sessions, requests in flight, collaborators
\* ------------------------------------------------------------------------

\* Bounds of the model
MaxTurns == 4
MaxConcTurns == 2
MaxObjs == 2
MaxInFlight == 2

Keys == {"k1", "k2"}
Reqs == 1..MaxInFlight
ObjIds == 1..MaxObjs
Slots == {"vehicleAge", "horsepower", "coverageLevel"}

\* the transcripts the transcription collaborator returns in the model
Utterances == {
  "",
  "zelim izracun premije",
  "5 let",
  "150 konjev",
  "osnovno",
  "delni kasko",
  "polni kasko",
  "da",
  "ne hvala",
  "lahko",
  "izracun za avto 5 let 150 konjev v Mariboru",
  "avto 5 let, 150 konjev, osnovno",
  "polni kasko 10 let",
  "nov izracun",
  "kako prijavim skodo",
  "00 konjev",
  "oba, delni in polni",
  "hm ne vem",
  "primerjaj xe delni",
  "izracun za avto 10 let",
  "nov izracun 7 let"
}

\* the transcripts of the runs with concurrent requests
ConcUtterances == {
  "avto 5 let, 150 konjev, osnovno",
  "kako prijavim skodo"
}

\* the transcripts of the runs of the comparison sub-dialogue
CmpUtterances == {
  "avto 5 let, 150 konjev, osnovno",
  "delni kasko",
  "polni kasko",
  "da",
  "ne hvala",
  "osnovno 7 let",
  "ne, polni kasko",
  "polni kasko 00 konjev",
  "da, osnovno",
  "polni kasko 2015 00 konjev"
}

Heard == [u \in Utterances \cup CmpUtterances |-> Hears(u)]

VARIABLES
  sessions,   \* the sessions map: key -> session object (0: no entry)
  heap,       \* the session objects: messages and state
  reqs,       \* the requests: handler position, session reference, response
  nTurns,     \* the number of POST /turn requests received so far
  supplied,   \* history: per session object, the required slots for which the
              \* utterances of the active draft carried a value
  call        \* the application of one function on its own: the function's
              \* name, its arguments and, once applied, its result

vars == <<sessions, heap, reqs, nTurns, supplied, call>>

\* no function is applied on its own
NoCall == [fn |-> "none", args |-> <<>>, result |-> <<>>]

\* a request: the handler's position (pc), its session reference, the turn's
\* number, the transcript, the response (status and reply) and, as history,
\* the session as the handler found it (pre) and what the turn went through
\* (did)
IdleReq ==
  [pc |-> "idle", key |-> "", sess |-> 0, turn |-> 0, transcript |-> "",
   status |-> 0, reply |-> NoReply, pre |-> <<>>, did |-> {}]

\* the server after start-up: no session, no request
InitServer ==
  /\ sessions = [k \in Keys |-> 0]
  /\ heap = [o \in ObjIds |-> InitSession]
  /\ reqs = [r \in Reqs |-> IdleReq]
  /\ nTurns = 0
  /\ supplied = [o \in ObjIds |-> {}]

Init == InitServer /\ call = NoCall

Finished(r) == reqs[r].pc \in {"idle", "done"}

\* the session objects that the sessions map or a running handler refers to
Live(ss, rq) ==
  {ss[k] : k \in Keys} \cup {rq[r].sess : r \in {q \in Reqs : rq[q].pc \notin {"idle", "done"}}}

\* the next values of sessions, heap, reqs and supplied.  A session object that
\* neither the map nor a running handler refers to is garbage: its slot is
\* cleared for reuse, and a finished request forgets its reference to it
Commit(ss, hp, rq, su) ==
  /\ sessions' = ss
  /\ heap' = [o \in ObjIds |-> IF o \in Live(ss, rq) THEN hp[o] ELSE InitSession]
  /\ reqs' = [r \in Reqs |-> IF rq[r].sess \in Live(ss, rq) THEN rq[r]
                             ELSE [rq[r] EXCEPT !.sess = 0, !.pre = <<>>]]
  /\ supplied' = [o \in ObjIds |-> IF o \in Live(ss, rq) THEN su[o] ELSE {}]
  /\ UNCHANGED call

\* the catch block: the response with status 500 and the error's message
Failed(r, message) ==
  [reqs EXCEPT ![r].pc = "done", ![r].status = 500, ![r].reply = ErrorReply(message)]

\* POST /turn with a getSession that keeps one session object for all keys
StartTurnSharedSession(r, k, hasFile) ==
  /\ Finished(r)
  /\ LET free == ObjIds \ Live(sessions, reqs)
         create == sessions[k] = 0
         o == IF create THEN MinOf(ObjIds) ELSE sessions[k]
         hp == IF create THEN [heap EXCEPT ![o] = InitSession] ELSE heap
     IN /\ create => free # {}
        /\ Commit([sessions EXCEPT ![k] = o], hp,
                  [reqs EXCEPT ![r] =
                     [IdleReq EXCEPT !.pc = IF hasFile THEN "stt" ELSE "done",
                                     !.key = k, !.sess = o, !.turn = nTurns + 1,
                                     !.status = IF hasFile THEN 0 ELSE 400,
                                     !.reply = IF hasFile THEN NoReply
                                               ELSE ErrorReply("Missing audio file"),
                                     !.pre = <<hp[o]>>]],
                  supplied)
  /\ nTurns' = nTurns + 1

\* POST /turn up to the call of the transcription collaborator: getSession
\* creates the session if the key has none; a request without audio is
\* answered with status 400
StartTurn(r, k, hasFile) ==
  /\ Finished(r)
  /\ LET free == ObjIds \ Live(sessions, reqs)
         create == sessions[k] = 0
         o == IF create THEN MinOf(free) ELSE sessions[k]
         hp == IF create THEN [heap EXCEPT ![o] = InitSession] ELSE heap
     IN /\ create => free # {}
        /\ Commit([sessions EXCEPT ![k] = o], hp,
                  [reqs EXCEPT ![r] =
                     [IdleReq EXCEPT !.pc = IF hasFile THEN "stt" ELSE "done",
                                     !.key = k, !.sess = o, !.turn = nTurns + 1,
                                     !.status = IF hasFile THEN 0 ELSE 400,
                                     !.reply = IF hasFile THEN NoReply
                                               ELSE ErrorReply("Missing audio file"),
                                     !.pre = <<hp[o]>>]],
                  supplied)
  /\ nTurns' = nTurns + 1

\* the required slots for which the transcript carries a value
Supplies(h) ==
  {"vehicleAge" : x \in {h.vehicleAge} \ {NullNum}}
    \cup {"horsepower" : x \in {h.horsepower} \ {NullNum}}
    \cup {"coverageLevel" : x \in {h.coverageLevel} \ {NullStr}}

\* the transcription returns u: the user message is pushed and the dialogue
\* state is updated, up to the next collaborator call or a thrown exception
SttReturn(r, u) ==
  /\ reqs[r].pc = "stt"
  /\ \E o \in {reqs[r].sess}, h \in {Heard[u]} :
       \E t \in {TurnState(heap[o].state, h)} :
         LET user == [role |-> "user", turn |-> reqs[r].turn]
             assistant == [role |-> "assistant", turn |-> reqs[r].turn]
             msgs == IF t.next = "tts" THEN <<user, assistant>> ELSE <<user>>
             kept == heap[o].state.premium # <<>> /\ ~h.wantsNewVehicle
             su == IF t.state.premium = <<>> THEN {}
                   ELSE (IF kept THEN supplied[o] ELSE {}) \cup Supplies(h)
             rq == [reqs EXCEPT ![r].transcript = u, ![r].reply = t.reply, ![r].did = t.did]
         IN Commit(sessions,
                   [heap EXCEPT ![o] = [messages |-> heap[o].messages \o msgs, state |-> t.state]],
                   IF t.next = "throw"
                     THEN [rq EXCEPT ![r].pc = "done", ![r].status = 500]
                     ELSE [rq EXCEPT ![r].pc = t.next],
                   [supplied EXCEPT ![o] = su])
  /\ UNCHANGED nTurns

\* the transcription collaborator fails
SttFail(r) ==
  /\ reqs[r].pc = "stt"
  /\ Commit(sessions, heap, Failed(r, "STT failed"), supplied)
  /\ UNCHANGED nTurns

\* LlmReturn of a handler that took a copy of the dialogue state before its
\* awaits and writes it back when the answering collaborator returns
LlmReturnWritesStateBack(r) ==
  /\ reqs[r].pc = "llm"
  /\ LET o == reqs[r].sess
     IN Commit(sessions,
               [heap EXCEPT ![o].messages = Append(@, [role |-> "assistant", turn |-> reqs[r].turn]),
                            ![o].state = reqs[r].pre[1].state],
               [reqs EXCEPT ![r].pc = "tts",
                            ![r].reply = [kind |-> "answer", extra |-> "ragDocs", quote |-> <<>>]],
               supplied)
  /\ UNCHANGED nTurns

\* the answering collaborator returns: the assistant message is pushed
LlmReturn(r) ==
  /\ reqs[r].pc = "llm"
  /\ LET o == reqs[r].sess
     IN Commit(sessions,
               [heap EXCEPT ![o].messages = Append(@, [role |-> "assistant", turn |-> reqs[r].turn])],
               [reqs EXCEPT ![r].pc = "tts",
                            ![r].reply = [kind |-> "answer", extra |-> "ragDocs", quote |-> <<>>]],
               supplied)
  /\ UNCHANGED nTurns

LlmFail(r) ==
  /\ reqs[r].pc = "llm"
  /\ Commit(sessions, heap, Failed(r, "LLM failed"), supplied)
  /\ UNCHANGED nTurns

\* respondWithTTS: the speech synthesis returns and the response is sent
TtsReturn(r) ==
  /\ reqs[r].pc = "tts"
  /\ Commit(sessions, heap, [reqs EXCEPT ![r].pc = "done", ![r].status = 200], supplied)
  /\ UNCHANGED nTurns

TtsFail(r) ==
  /\ reqs[r].pc = "tts"
  /\ Commit(sessions, heap, Failed(r, "TTS failed"), supplied)
  /\ UNCHANGED nTurns

\* POST /reset that empties the transcript of the key's session but keeps the
\* session and its dialogue state
ResetKeepsState(k) ==
  /\ Commit(sessions,
            [o \in ObjIds |-> IF o = sessions[k]
                              THEN [heap[o] EXCEPT !.messages = InitSession.messages]
                              ELSE heap[o]],
            reqs, supplied)
  /\ UNCHANGED nTurns

\* POST /reset that re-initialises the key's session object in place and
\* keeps it in the sessions map
ResetClearsInPlace(k) ==
  /\ Commit(sessions,
            [o \in ObjIds |-> IF o = sessions[k] THEN InitSession ELSE heap[o]],
            reqs, supplied)
  /\ UNCHANGED nTurns

\* POST /reset
Reset(k) ==
  /\ Commit([sessions EXCEPT ![k] = 0], heap, reqs, supplied)
  /\ UNCHANGED nTurns

\* one session, one request at a time
Next ==
  \/ \E hasFile \in BOOLEAN : nTurns < MaxTurns /\ StartTurn(1, "k1", hasFile)
  \/ \E u \in Utterances : SttReturn(1, u)
  \/ SttFail(1)
  \/ LlmReturn(1)
  \/ LlmFail(1)
  \/ TtsReturn(1)
  \/ TtsFail(1)
  \/ Finished(1) /\ Reset("k1")

Spec == Init /\ [][Next]_vars

\* one session, one request at a time, with the transcripts of the comparison
\* sub-dialogue
NextCmp ==
  \/ \E hasFile \in BOOLEAN : nTurns < MaxTurns /\ StartTurn(1, "k1", hasFile)
  \/ \E u \in CmpUtterances : SttReturn(1, u)
  \/ SttFail(1)
  \/ LlmReturn(1)
  \/ LlmFail(1)
  \/ TtsReturn(1)
  \/ TtsFail(1)
  \/ Finished(1) /\ Reset("k1")

SpecCmp == Init /\ [][NextCmp]_vars

\* requests and resets on every key, interleaved at the collaborator calls; a
\* request takes the first handler that is free
NextConc ==
  \/ \E r \in Reqs, k \in Keys :
       /\ nTurns < MaxConcTurns
       /\ \A q \in 1..(r - 1) : ~Finished(q)
       /\ StartTurn(r, k, TRUE)
  \/ \E r \in Reqs, u \in ConcUtterances : SttReturn(r, u)
  \/ \E r \in Reqs : SttFail(r)
  \/ \E r \in Reqs : LlmReturn(r)
  \/ \E r \in Reqs : LlmFail(r)
  \/ \E r \in Reqs : TtsReturn(r)
  \/ \E r \in Reqs : TtsFail(r)
  \/ \E k \in Keys : Reset(k)

SpecConc == Init /\ [][NextConc]_vars

\* ------------------------------------------------------------------------
\* Functions applied on their own
\* ------------------------------------------------------------------------

\* the ranges of the slots
MaxAge == 40
MinHp == 20
MaxHp == 600

\* the cities of the premium runs: those of cityFactorMap and one other
PremiumCities == {"Ljubljana", "Maribor", "Koper", "Celje", "Kranj", "Other"}

Tiers == <<"osnovno", "delni_kasko", "polni_kasko">>

\* calculate_premium for every age, horsepower and city, one tier after the
\* other
InitPremium ==
  /\ InitServer
  /\ call \in {[fn |-> "calculate_premium", args |-> <<age, hp, city>>, result |-> <<>>]
               : age \in 0..MaxAge, hp \in MinHp..MaxHp, city \in PremiumCities}

CalculatePremium ==
  /\ call.fn = "calculate_premium" /\ call.result = <<>>
  /\ call' = [call EXCEPT !.result =
                [t \in 1..Len(Tiers) |->
                   calculate_premium(call.args[1], call.args[2], call.args[3], Tiers[t])]]
  /\ UNCHANGED <<sessions, heap, reqs, nTurns, supplied>>

NextPremium == CalculatePremium

SpecPremium == InitPremium /\ [][NextPremium]_vars

\* the entries of a table of number words
Entries(table) == {table[n] : n \in 1..Len(table)}

\* the word forms of the numbers 0..99 with their values: the words of the
\* tables ones, teens and tens, and every compound of a units word and a tens
\* word, written as one word ("enaindvajset") and as tokens ("ena in dvajset")
WordForms ==
  Entries(ones) \cup Entries(teens) \cup Entries(tens)
    \cup {<<o[1] \o "in" \o t[1], t[2] + o[2]>> : o \in {e \in Entries(ones) : e[2] > 0}, t \in Entries(tens)}
    \cup {<<o[1] \o " in " \o t[1], t[2] + o[2]>> : o \in {e \in Entries(ones) : e[2] > 0}, t \in Entries(tens)}

\* digit runs with their values: a run on its own between spaces, and a run
\* with a unit written onto it
DigitRuns == {<<"7", 7>>, <<"42", 42>>, <<"007", 7>>, <<"150", 150>>, <<"2024", 2024>>}
UnitRuns == {<<"5let", 5>>, <<"150km", 150>>}

\* the pairs of a digit run and a number word of another value
MixedPairs ==
  {p \in (DigitRuns \cup UnitRuns)
           \X (Entries(ones) \cup Entries(teens) \cup Entries(tens) \cup Entries(hundreds)) :
     p[1][2] # p[2][2]}

\* the phrases of such a pair, in both orders, with the value of the digit run
MixedPhrases ==
  {<<p[1][1] \o " " \o p[2][1], p[1][2]>> : p \in MixedPairs}
    \cup {<<p[2][1] \o " " \o p[1][1], p[1][2]>> : p \in MixedPairs}

\* parseSlNumberRobust for every word form and every mixed phrase; the
\* arguments carry, next to the text, the value the text stands for and which
\* of the two sets it is from
InitParse ==
  /\ InitServer
  /\ call \in {[fn |-> "parseSlNumberRobust", args |-> <<f[1], f[2], "word">>, result |-> <<>>] : f \in WordForms}
            \cup {[fn |-> "parseSlNumberRobust", args |-> <<f[1], f[2], "mixed">>, result |-> <<>>] : f \in MixedPhrases}

ParseNumber ==
  /\ call.fn = "parseSlNumberRobust" /\ call.result = <<>>
  /\ call' = [call EXCEPT !.result = <<parseSlNumberRobust(call.args[1])>>]
  /\ UNCHANGED <<sessions, heap, reqs, nTurns, supplied>>

NextParse == ParseNumber

SpecParse == InitParse /\ [][NextParse]_vars

\* isPremiumIntent applied to every combination of the five features of an
\* utterance, in a state with and without lastPremium and pendingComparison
InitIntent ==
  /\ InitServer
  /\ call \in {[fn |-> "isPremiumIntent",
                args |-> <<[looksLikeInfoQuestion |-> infoQ, hasCalcWording |-> calcW,
                            mentionsCoverage |-> cov, hasAnyPremiumSlotHints |-> slots,
                            wantsComparison |-> cmp],
                           [InitState EXCEPT !.lastPremium = lp, !.pendingComparison = pc]>>,
                result |-> <<>>]
               : infoQ \in BOOLEAN, calcW \in BOOLEAN, cov \in BOOLEAN, slots \in BOOLEAN,
                 cmp \in BOOLEAN,
                 lp \in {<<>>, <<[vehicleAge |-> 5, horsepower |-> 150, city |-> "Other"]>>},
                 pc \in {<<>>, <<[options |-> <<"polni_kasko">>]>>}}

ClassifyIntent ==
  /\ call.fn = "isPremiumIntent" /\ call.result = <<>>
  /\ call' = [call EXCEPT !.result = <<isPremiumIntent(call.args[1], call.args[2])>>]
  /\ UNCHANGED <<sessions, heap, reqs, nTurns, supplied>>

NextIntent == ClassifyIntent

SpecIntent == InitIntent /\ [][NextIntent]_vars

\* ------------------------------------------------------------------------
\* Document retriever (rag.js)
\* ------------------------------------------------------------------------

\* the largest corpus of the retriever runs
MaxDocs == 3

\* .sort((a, b) => b.score - a.score): by falling score, equal scores in
\* the order they had (Array.prototype.sort is stable)
SortByScore(scored) ==
  IF scored = <<>> THEN <<>>
  ELSE [pos \in 1..Len(scored) |->
          scored[CHOOSE i \in 1..Len(scored) :
                   Cardinality({j \in 1..Len(scored) :
                                  \/ scored[j].score > scored[i].score
                                  \/ scored[j].score = scored[i].score /\ j < i}) = pos - 1]]

\* .filter((x) => x.score > 0)
scorePositive(x) == x.score > 0

\* retrieveDocs without the filter on the score
retrieveDocsUnfiltered(query, docs, k) ==
  LET q == {query[n] : n \in 1..Len(query)}
      scored == [i \in 1..Len(docs) |->
                   [id |-> i, score |-> Cardinality(q \cap {docs[i][n] : n \in 1..Len(docs[i])})]]
  IN SubSeq(SortByScore(scored), 1, IF k < Len(docs) THEN k ELSE Len(docs))

\* retrieveDocs of part_000: the score of a document is the number of query
\* words in its tokenSet.  A query and a document are given by their words
\* (the result of tokenize), a hit by the place of its document in docs.
retrieveDocs(query, docs, k) ==
  LET q == {query[n] : n \in 1..Len(query)}
      scored == [i \in 1..Len(docs) |->
                   [id |-> i, score |-> Cardinality(q \cap {docs[i][n] : n \in 1..Len(docs[i])})]]
  IN SelectSeq(SubSeq(SortByScore(scored), 1, IF k < Len(docs) THEN k ELSE Len(docs)),
               scorePositive)

\* retrieveDocs of part_003: the score of a document is the number of its
\* words, repeated ones counted each time, that are query words
retrieveDocsText(query, docs, k) ==
  LET q == {query[n] : n \in 1..Len(query)}
      scored == [i \in 1..Len(docs) |->
                   [id |-> i, score |-> Cardinality({n \in 1..Len(docs[i]) : docs[i][n] \in q})]]
  IN SelectSeq(SubSeq(SortByScore(scored), 1, IF k < Len(docs) THEN k ELSE Len(docs)),
               scorePositive)

\* the retriever is applied to every corpus of up to MaxDocs documents out
\* of five, four queries and every k up to MaxDocs, in either version
InitRetrieve ==
  /\ InitServer
  /\ call \in {[fn |-> "retrieveDocs", args |-> <<query, docs, k, byText>>, result |-> <<>>]
               : query \in {<<>>, <<"a">>, <<"a", "b">>, <<"b", "c">>},
                 docs \in UNION {[1..n -> {<<>>, <<"a">>, <<"b">>, <<"a", "b">>, <<"a", "a">>}]
                                 : n \in 0..MaxDocs},
                 k \in 1..MaxDocs,
                 byText \in BOOLEAN}

\* the answering flow calls the retriever and chooses the context documents:
\* the hits, or the first k documents of the corpus if there is no hit
Retrieve ==
  /\ call.fn = "retrieveDocs" /\ call.result = <<>>
  /\ \E hits \in {IF call.args[4] THEN retrieveDocsText(call.args[1], call.args[2], call.args[3])
                  ELSE retrieveDocs(call.args[1], call.args[2], call.args[3])} :
       call' = [call EXCEPT !.result =
                  <<[hits |-> hits,
                     contextDocs |->
                       IF Len(hits) # 0 THEN [n \in 1..Len(hits) |-> hits[n].id]
                       ELSE [n \in 1..(IF call.args[3] < Len(call.args[2])
                                         THEN call.args[3] ELSE Len(call.args[2])) |-> n]]>>]
  /\ UNCHANGED <<sessions, heap, reqs, nTurns, supplied>>

NextRetrieve == Retrieve

SpecRetrieve == InitRetrieve /\ [][NextRetrieve]_vars

\* ------------------------------------------------------------------------
\* Properties
\* ------------------------------------------------------------------------

\* the dialogue state of the session object o
StateOf(o) == heap[o].state

\* the turn of request r has ended with its response sent, and its session
\* has not been reset since
Completed(r) == reqs[r].pc = "done" /\ reqs[r].status = 200 /\ reqs[r].sess # 0

\* the step in which the handler of request r emits a quote
QuoteStep(r) == reqs[r].pc = "stt" /\ reqs'[r].pc = "tts" /\ reqs'[r].reply.kind = "quote"

\* the step in which a handler resets the vehicle of the session object o:
\* the new-vehicle phrase or the detection of a fresh premium request
VehicleResetStep(o) ==
  \E r \in Reqs : /\ reqs[r].pc = "stt" /\ reqs[r].sess = o /\ reqs'[r].pc # "stt"
                  /\ reqs'[r].did \cap {"newVehicle", "newPremium"} # {}

\* the messages of the errors that calculate_premium throws
ValidationErrors ==
  {"vehicleAge must be a non-negative number",
   "horsepower must be a positive number",
   "coverageLevel is required"}

\* C1: no session ever holds an active draft (premium) and an outstanding
\* comparison offer (pendingComparison) at once.
C1_DraftExcludesOffer ==
  \A o \in ObjIds : StateOf(o).premium = <<>> \/ StateOf(o).pendingComparison = <<>>

\* a turn that accepted a comparison offer, so that the comparison block
\* created a draft, has emitted its quote and ended with a new offer
C1_OfferAfterAcceptedOffer ==
  \E r \in Reqs : /\ Completed(r) /\ reqs[r].reply.kind = "quote"
                  /\ "accepted" \in reqs[r].did
                  /\ StateOf(reqs[r].sess).pendingComparison # <<>>

\* C2: when a turn has failed (status 500), the session's state and
\* transcript are what they were when the turn began.
C2_FailedTurnChangesNothing ==
  \A r \in Reqs :
    (reqs[r].pc = "done" /\ reqs[r].status = 500 /\ reqs[r].sess # 0)
      => heap[reqs[r].sess] = reqs[r].pre[1]

\* C3: while a turn of a session is in flight, no turn of the same session
\* that was received later has written to the session's transcript.
C3_TurnsAreSequential ==
  \A r1, r2 \in Reqs :
    (/\ reqs[r1].pc \in {"stt", "llm", "tts"}
     /\ reqs[r2].pc # "idle"
     /\ reqs[r2].sess = reqs[r1].sess
     /\ reqs[r1].turn < reqs[r2].turn)
      => \A n \in 1..Len(heap[reqs[r2].sess].messages) :
           heap[reqs[r2].sess].messages[n].turn # reqs[r2].turn

\* C4: no turn ends with a validation error of calculate_premium.
C4_CalculatorNeverThrows ==
  \A r \in Reqs : reqs[r].reply.kind = "error" => reqs[r].reply.extra \notin ValidationErrors

\* C5: once the utterances of a draft have supplied the vehicle age, the
\* horsepower and the coverage tier, in whatever order, the quote has been
\* emitted and the draft is gone.
C5_SuppliedSlotsReachQuote ==
  \A o \in ObjIds : StateOf(o).premium # <<>> => supplied[o] # Slots

\* C6: while a draft is active its pendingSlot is the first of vehicleAge,
\* horsepower and coverageLevel that the draft has no value for (so it is
\* never a slot that holds a value, and never the city).
C6_PendingSlotIsFirstUnset ==
  \A o \in ObjIds :
    StateOf(o).premium # <<>>
      => /\ StateOf(o).premium[1].pendingSlot \in Slots
         /\ StateOf(o).premium[1].pendingSlot = missingSlot(StateOf(o).premium[1])

\* C7: no tier of an outstanding comparison offer is in comparedLevels.
C7_OfferedTiersNotCompared ==
  \A o \in ObjIds :
    StateOf(o).pendingComparison # <<>>
      => \A n \in 1..Len(StateOf(o).pendingComparison[1].options) :
           StateOf(o).pendingComparison[1].options[n] \notin StateOf(o).comparedLevels

\* an offer is outstanding while two tiers have been quoted for the vehicle
C7_OfferAfterTwoQuotes ==
  \E o \in ObjIds : /\ StateOf(o).pendingComparison # <<>>
                    /\ Cardinality(StateOf(o).comparedLevels) >= 2

\* C8: the step that emits a quote puts the quoted tier into comparedLevels,
\* and no step takes a tier out of comparedLevels except a vehicle reset and
\* the reset of the session.
C8_ComparedLevelsKept ==
  [][/\ \A r \in Reqs :
          QuoteStep(r) => reqs'[r].reply.quote[1].coverageLevel
                            \in heap'[reqs[r].sess].state.comparedLevels
     /\ \A o \in ObjIds :
          \/ heap[o].state.comparedLevels \subseteq heap'[o].state.comparedLevels
          \/ VehicleResetStep(o)
          \/ o \notin Live(sessions', reqs')]_vars

\* a completed turn has emitted a quote, and the tier of an earlier quote is
\* still in comparedLevels
C8_EarlierTierStillCompared ==
  \E r \in Reqs : /\ Completed(r) /\ reqs[r].reply.kind = "quote"
                  /\ reqs[r].reply.quote[1].coverageLevel \in StateOf(reqs[r].sess).comparedLevels
                  /\ StateOf(reqs[r].sess).comparedLevels # {reqs[r].reply.quote[1].coverageLevel}

\* C9: a step that emits a quote for vehicle facts other than those of the
\* session's previous quote leaves only the quoted tier in comparedLevels.
C9_VehicleChangeResetsCompared ==
  [][\A r \in Reqs :
       (/\ QuoteStep(r)
        /\ heap[reqs[r].sess].state.lastPremium # <<>>
        /\ heap'[reqs[r].sess].state.lastPremium # heap[reqs[r].sess].state.lastPremium)
         => heap'[reqs[r].sess].state.comparedLevels = {reqs'[r].reply.quote[1].coverageLevel}]_vars

\* C10: the quote of a turn that accepted a comparison offer is for the age,
\* horsepower and city that lastPremium held when the turn began.
C10_AcceptedComparisonKeepsVehicle ==
  [][\A r \in Reqs :
       (/\ QuoteStep(r)
        /\ "accepted" \in reqs'[r].did
        /\ heap[reqs[r].sess].state.lastPremium # <<>>)
         => /\ reqs'[r].reply.quote[1].vehicleAge = heap[reqs[r].sess].state.lastPremium[1].vehicleAge
            /\ reqs'[r].reply.quote[1].horsepower = heap[reqs[r].sess].state.lastPremium[1].horsepower
            /\ reqs'[r].reply.quote[1].city = heap[reqs[r].sess].state.lastPremium[1].city]_vars

\* the session as getSession creates it, written out: only the system message
\* in the transcript, no draft, no lastPremium, nothing compared, no offer
IsInitialSession(s) ==
  /\ Len(s.messages) = 1 /\ s.messages[1].role = "system"
  /\ s.state.premium = <<>> /\ s.state.lastPremium = <<>>
  /\ s.state.comparedLevels = {} /\ s.state.pendingComparison = <<>>

\* C11: POST /reset leaves the key without a session; the turn that next
\* creates the key's session finds the initial session, whatever the session
\* held before the reset; and POST /reset on a key without a session changes
\* nothing (so resetting twice is resetting once).
C11_ResetGivesInitialSession ==
  [][\A k \in Keys :
       /\ Reset(k) => sessions'[k] = 0
       /\ (Reset(k) /\ sessions[k] = 0) => UNCHANGED vars
       /\ (sessions[k] = 0 /\ sessions'[k] # 0)
            => /\ IsInitialSession(heap'[sessions'[k]])
               /\ \E r \in Reqs : /\ reqs[r].pc \in {"idle", "done"}
                                  /\ reqs'[r].key = k
                                  /\ reqs'[r].sess = sessions'[k]
                                  /\ reqs'[r].turn = nTurns'
                                  /\ IsInitialSession(reqs'[r].pre[1])]_vars

\* a turn has ended with a quote, so that its session held a lastPremium and
\* compared tiers, and the session has been reset since
C11_ResetAfterQuote ==
  /\ sessions["k1"] = 0
  /\ reqs[1].pc = "done" /\ reqs[1].status = 200 /\ reqs[1].reply.kind = "quote"
  /\ reqs[1].sess = 0

\* a step of a request or of a reset on the session key k
ActsOn(k) ==
  \/ Reset(k)
  \/ \E r \in Reqs : reqs'[r].pc # reqs[r].pc /\ reqs'[r].key = k

\* C12: a step changes the session of a key (which session the key has, its
\* transcript, its dialogue state) only if it is a step of a turn or of a
\* reset on that key, however the requests on the keys interleave.
C12_OtherKeysUntouched ==
  [][\A k \in Keys :
       (\/ sessions'[k] # sessions[k]
        \/ (sessions[k] # 0 /\ heap'[sessions[k]] # heap[sessions[k]]))
         => ActsOn(k)]_vars

\* both keys have a session of their own, the one of k1 has a quote behind it
\* and the one of k2 has a turn in its transcript
C12_TwoSessionsAtWork ==
  /\ sessions["k1"] # 0 /\ sessions["k2"] # 0 /\ sessions["k1"] # sessions["k2"]
  /\ heap[sessions["k1"]].state.lastPremium # <<>>
  /\ Len(heap[sessions["k2"]].messages) > 1

\* C13: the response of every successful turn carries one of the draft with
\* pending: true ("premium"), a premiumResult, or ragDocs.
C13_ResponseCarriesOneExtra ==
  \A r \in Reqs :
    (reqs[r].pc = "done" /\ reqs[r].status = 200)
      => reqs[r].reply.extra \in {"premium", "premiumResult", "ragDocs"}

\* C14: the step in which the transcription returns the empty transcript
\* appends nothing to the session's transcript, changes no dialogue state and
\* ends the turn with an error response.
C14_EmptyTranscriptIsError ==
  [][\A r \in Reqs :
       SttReturn(r, "")
         => /\ heap'[reqs[r].sess] = heap[reqs[r].sess]
            /\ reqs'[r].pc = "done"
            /\ reqs'[r].status >= 400
            /\ reqs'[r].reply.kind = "error"]_vars

\* C15: a draft holds no vehicleAge outside 0..40 and no horsepower outside
\* 20..600.
C15_DraftValuesInRange ==
  \A o \in ObjIds :
    StateOf(o).premium # <<>>
      => /\ StateOf(o).premium[1].vehicleAge \in {NullNum} \cup (0..40)
         /\ StateOf(o).premium[1].horsepower \in {NullNum} \cup (20..600)

\* the step in which the handler of request r starts the premium flow on a
\* session that has a lastPremium but neither a draft nor an offer (as after
\* a declined offer), and so creates a draft
IdleDraftStep(r) ==
  /\ reqs[r].pc = "stt" /\ reqs'[r].pc # "stt"
  /\ heap[reqs[r].sess].state.premium = <<>>
  /\ heap[reqs[r].sess].state.pendingComparison = <<>>
  /\ heap[reqs[r].sess].state.lastPremium # <<>>
  /\ \/ reqs'[r].reply.kind \in {"askSlot", "quote"}
     \/ reqs'[r].reply.kind = "error" /\ reqs'[r].reply.extra \in ValidationErrors

\* the vehicle facts of the draft that the step of request r leaves, or of
\* the quote that it emits
DraftFacts(r) ==
  IF reqs'[r].reply.kind = "quote" THEN reqs'[r].reply.quote[1]
  ELSE heap'[reqs[r].sess].state.premium[1]

\* the facts are those of lastPremium as the step found it, but for the
\* values that the utterance itself carries
PrefilledFacts(r) ==
  \E h \in {Heard[reqs'[r].transcript]}, lp \in {heap[reqs[r].sess].state.lastPremium[1]},
     f \in {DraftFacts(r)} :
       /\ f.vehicleAge = IF h.vehicleAge # NullNum THEN h.vehicleAge ELSE lp.vehicleAge
       /\ f.horsepower = IF h.horsepower # NullNum THEN h.horsepower ELSE lp.horsepower
       /\ f.city = IF h.city # NullStr THEN h.city ELSE lp.city

\* C16 (as stated): a draft created on a session that has a lastPremium is
\* prefilled from it unless the utterance contains a new-vehicle phrase.
C16_PrefillUnlessNewVehicle ==
  [][\A r \in Reqs :
       (IdleDraftStep(r) /\ "newVehicle" \notin reqs'[r].did) => PrefilledFacts(r)]_vars

\* C16 (amended): a draft created on a session that has a lastPremium is
\* prefilled from it unless the utterance contains a new-vehicle phrase or is
\* detected as a new premium request (a vehicle noun with an age, horsepower
\* or city cue), which clears lastPremium before the draft is created.
C16_PrefillUnlessVehicleReset ==
  [][\A r \in Reqs :
       (IdleDraftStep(r) /\ reqs'[r].did \cap {"newVehicle", "newPremium"} = {})
         => PrefilledFacts(r)]_vars

\* a completed turn has created a draft on a session that had a lastPremium
\* and no offer, with no vehicle reset, and asks for the coverage tier: the
\* draft holds the age and the horsepower of lastPremium
C16_PrefilledDraftAsksTier ==
  \E r \in Reqs :
    /\ Completed(r) /\ reqs[r].reply.kind = "askSlot"
    /\ reqs[r].pre[1].state.premium = <<>>
    /\ reqs[r].pre[1].state.pendingComparison = <<>>
    /\ reqs[r].pre[1].state.lastPremium # <<>>
    /\ reqs[r].did = {}
    /\ StateOf(reqs[r].sess).premium # <<>>
    /\ StateOf(reqs[r].sess).premium[1].pendingSlot = "coverageLevel"
    /\ StateOf(reqs[r].sess).premium[1].horsepower = reqs[r].pre[1].state.lastPremium[1].horsepower

\* C17: the step of a turn whose utterance contains a new-vehicle phrase
\* skips the comparison block and leaves nothing of the earlier vehicle: a
\* draft it leaves and a quote it emits hold the values of the utterance only
\* (the city of a quote defaulted), comparedLevels holds at most the quoted
\* tier, and without a quote there is no lastPremium and no offer.
C17_NewVehicleClearsAll ==
  [][\A r \in Reqs :
       (reqs[r].pc = "stt" /\ reqs'[r].pc # "stt" /\ Heard[reqs'[r].transcript].wantsNewVehicle)
         => \E h \in {Heard[reqs'[r].transcript]}, st \in {heap'[reqs[r].sess].state} :
              /\ "newVehicle" \in reqs'[r].did
              /\ reqs'[r].reply.kind \notin {"askOrder", "unsure", "closing", "whichOne", "recheck"}
              /\ st.premium # <<>>
                   => /\ st.premium[1].vehicleAge = h.vehicleAge
                      /\ st.premium[1].horsepower = h.horsepower
                      /\ st.premium[1].coverageLevel = h.coverageLevel
                      /\ st.premium[1].city \in {h.city, "Other"}
              /\ reqs'[r].reply.kind = "quote"
                   => /\ reqs'[r].reply.quote[1].vehicleAge = h.vehicleAge
                      /\ reqs'[r].reply.quote[1].horsepower = h.horsepower
                      /\ reqs'[r].reply.quote[1].coverageLevel = h.coverageLevel
                      /\ reqs'[r].reply.quote[1].city = (IF h.city = NullStr THEN "Other" ELSE h.city)
                      /\ st.comparedLevels = {h.coverageLevel}
              /\ reqs'[r].reply.kind # "quote"
                   => /\ st.lastPremium = <<>> /\ st.comparedLevels = {}
                      /\ st.pendingComparison = <<>>]_vars

\* a completed turn with a new-vehicle phrase found a draft that held a
\* horsepower, and leaves a draft with the age of its utterance and no
\* horsepower
C17_NewVehicleDropsDraft ==
  \E r \in Reqs :
    /\ Completed(r) /\ "newVehicle" \in reqs[r].did
    /\ reqs[r].pre[1].state.premium # <<>>
    /\ reqs[r].pre[1].state.premium[1].horsepower # NullNum
    /\ StateOf(reqs[r].sess).premium # <<>>
    /\ StateOf(reqs[r].sess).premium[1].vehicleAge = 7
    /\ StateOf(reqs[r].sess).premium[1].horsepower = NullNum

\* C18: for every age in 0..40, horsepower in 20..600 and city, the annual
\* premium of osnovno is below that of delni_kasko, which is below that of
\* polni_kasko, each by more than the one unit that Math.round of the double
\* product can differ from the exact one; the coverage factors are 1.00 <
\* 1.28 < 1.55.
C18_PremiumMonotoneInTier ==
  /\ coverageFactor("osnovno") = 100
  /\ coverageFactor("delni_kasko") = 128
  /\ coverageFactor("polni_kasko") = 155
  /\ (call.fn = "calculate_premium" /\ call.result # <<>>)
       => /\ call.result[1].annual_eur + 2 < call.result[2].annual_eur
          /\ call.result[2].annual_eur + 2 < call.result[3].annual_eur

\* the premiums of the oldest and strongest vehicle in a listed city have
\* been calculated
C18_CalculatedAtRangeEnd ==
  /\ call.fn = "calculate_premium" /\ call.result # <<>>
  /\ call.args = <<MaxAge, MaxHp, "Ljubljana">>
  /\ call.result[1].annual_eur > 0

\* C19: parseSlNumberRobust of a word form of a number 0..99 (a units word,
\* a teen, a tens word, a compound written as one word or with "in" between
\* tokens, in every listed spelling) is that number.
C19_WordFormsParseToValue ==
  (call.fn = "parseSlNumberRobust" /\ call.result # <<>> /\ call.args[3] = "word")
    => call.result[1] = call.args[2]

\* a compound written as tokens, in a variant spelling of its tens word, has
\* been parsed
C19_ParsedTokenCompound ==
  /\ call.fn = "parseSlNumberRobust" /\ call.result # <<>>
  /\ call.args[1] = "xtiri in xezdeset"
  /\ call.result = <<64>>

\* C20: parseSlNumberRobust of a phrase that holds a digit run and a number
\* word of another value is the value of the digit run.
C20_DigitRunWins ==
  (call.fn = "parseSlNumberRobust" /\ call.result # <<>> /\ call.args[3] = "mixed")
    => call.result[1] = call.args[2]

\* the options of an optional pendingComparison object, <<>> if there is none
OptionsOf(pc) == IF pc = <<>> THEN <<>> ELSE pc[1].options

\* C21: the step that emits a quote for tier T leaves as the offer: after
\* osnovno, those of delni_kasko and polni_kasko, in that order, that are not
\* in comparedLevels, and no offer if both are in it; after delni_kasko,
\* polni_kasko if it is not in comparedLevels, else no offer; after
\* polni_kasko, delni_kasko if it is not in comparedLevels, else no offer.
\* osnovno is never offered, and the offer of the response is the
\* pendingComparison of the session.
C21_OfferAfterQuote ==
  [][\A r \in Reqs :
       QuoteStep(r)
         => \E T \in {reqs'[r].reply.quote[1].coverageLevel},
               cl \in {heap'[reqs[r].sess].state.comparedLevels},
               opts \in {OptionsOf(heap'[reqs[r].sess].state.pendingComparison)} :
              /\ reqs'[r].reply.quote[1].offer = heap'[reqs[r].sess].state.pendingComparison
              /\ T \in {"osnovno", "delni_kasko", "polni_kasko"}
              /\ \A n \in 1..Len(opts) : opts[n] # "osnovno"
              /\ T = "osnovno" =>
                   /\ ("delni_kasko" \notin cl /\ "polni_kasko" \notin cl)
                        => opts = <<"delni_kasko", "polni_kasko">>
                   /\ ("delni_kasko" \notin cl /\ "polni_kasko" \in cl) => opts = <<"delni_kasko">>
                   /\ ("delni_kasko" \in cl /\ "polni_kasko" \notin cl) => opts = <<"polni_kasko">>
                   /\ ("delni_kasko" \in cl /\ "polni_kasko" \in cl) => opts = <<>>
              /\ T = "delni_kasko" =>
                   opts = (IF "polni_kasko" \notin cl THEN <<"polni_kasko">> ELSE <<>>)
              /\ T = "polni_kasko" =>
                   opts = (IF "delni_kasko" \notin cl THEN <<"delni_kasko">> ELSE <<>>)]_vars

\* a completed turn has emitted a quote for osnovno while polni_kasko was
\* compared already, and its offer is delni_kasko alone
C21_BasicQuoteOffersOneTier ==
  \E r \in Reqs :
    /\ Completed(r) /\ reqs[r].reply.kind = "quote"
    /\ reqs[r].reply.quote[1].coverageLevel = "osnovno"
    /\ "polni_kasko" \in StateOf(reqs[r].sess).comparedLevels
    /\ OptionsOf(StateOf(reqs[r].sess).pendingComparison) = <<"delni_kasko">>

\* the step in which the handler of request r goes through the transcript
\* that the transcription has returned
HeardStep(r) ==
  reqs[r].pc = "stt" /\ reqs'[r].pc # "stt" /\ reqs'[r].reply.extra # "STT failed"

\* such a step in which the handler finds state.pendingComparison set when it
\* reaches the comparison block, that is, after the new-vehicle reset
PendingAtBlock(r) ==
  /\ HeardStep(r)
  /\ heap[reqs[r].sess].state.pendingComparison # <<>>
  /\ ~Heard[reqs'[r].transcript].wantsNewVehicle

\* the utterance of the step names the tier l, which is one of the offered
\* ones
NamesOffered(r, l) ==
  /\ l # NullStr
  /\ l = Heard[reqs'[r].transcript].coverageLevel
  /\ \E n \in 1..Len(OptionsOf(heap[reqs[r].sess].state.pendingComparison)) :
       OptionsOf(heap[reqs[r].sess].state.pendingComparison)[n] = l

\* C22: the step of a turn that finds a comparison pending and whose
\* utterance names one of the offered tiers (and not both of two offered
\* ones) emits a quote for that tier and asks no slot question, whether or
\* not the utterance reads as affirmative or negative.
C22_NamedTierIsQuoted ==
  [][\A r \in Reqs :
       \A l \in {"delni_kasko", "polni_kasko"} :
         (/\ PendingAtBlock(r)
          /\ NamesOffered(r, l)
          /\ ~Heard[reqs'[r].transcript].mentionsBoth)
           => /\ QuoteStep(r)
              /\ reqs'[r].reply.quote[1].coverageLevel = l
              /\ heap'[reqs[r].sess].state.premium = <<>>]_vars

\* C23: the tier of a quote emitted by a turn that accepted a comparison
\* offer is one of the offered tiers; in particular the turn that answers an
\* offer of one tier affirmatively emits its quote for that tier.
C23_AcceptedQuoteIsOfferedTier ==
  [][\A r \in Reqs :
       (QuoteStep(r) /\ "accepted" \in reqs'[r].did)
         => \E opts \in {OptionsOf(heap[reqs[r].sess].state.pendingComparison)} :
              \E n \in 1..Len(opts) : opts[n] = reqs'[r].reply.quote[1].coverageLevel]_vars

C25_RepromptKeepsState ==
  [][\A r \in Reqs :
       \A h \in {Heard[reqs'[r].transcript]} :
         LET opts == OptionsOf(heap[reqs[r].sess].state.pendingComparison)
             CaseA == Len(opts) = 2 /\ h.mentionsBoth
             CaseGH ==
               /\ ~CaseA
               /\ ~(h.looksLikeInfoQuestion /\ ~h.mentionsCoverage /\ ~h.hasCalcWording)
               /\ h.isLikelyAnswerToComparison
               /\ \A l \in {"osnovno", "delni_kasko", "polni_kasko"} : ~NamesOffered(r, l)
               /\ ~h.isNegative
               /\ h.isAffirmative => Len(opts) = 2
         IN (PendingAtBlock(r) /\ (CaseA \/ CaseGH))
              => /\ heap'[reqs[r].sess].state = heap[reqs[r].sess].state
                 /\ heap'[reqs[r].sess].state.premium = <<>>
                 /\ reqs'[r].reply.kind =
                      (IF CaseA THEN "askOrder"
                       ELSE IF h.isAffirmative THEN "whichOne"
                       ELSE "recheck")
                 /\ reqs'[r].pc = "tts"]_vars

\* a completed turn whose utterance mentions both offered tiers has returned
\* the question for the order and left the offer of two tiers in place
C25_AskOrderReturned ==
  \E r \in Reqs :
    /\ Completed(r) /\ reqs[r].reply.kind = "askOrder"
    /\ OptionsOf(StateOf(reqs[r].sess).pendingComparison) = <<"delni_kasko", "polni_kasko">>
    /\ StateOf(reqs[r].sess) = reqs[r].pre[1].state

\* C26: a reply sent while an offer is outstanding (the offer after a quote
\* and the re-prompts of the comparison block) names only tiers of
\* pendingComparison.options, and so no tier that is in comparedLevels.
C26_PromptNamesOfferedTiers ==
  [][\A r \in Reqs :
       (HeardStep(r) /\ reqs'[r].pc = "tts" /\ heap'[reqs[r].sess].state.pendingComparison # <<>>)
         => \A l \in (IF reqs'[r].reply.kind = "quote" THEN reqs'[r].reply.quote[1].followUp
                     ELSE PromptNames(reqs'[r].reply.kind)) :
              /\ \E n \in 1..Len(OptionsOf(heap'[reqs[r].sess].state.pendingComparison)) :
                   OptionsOf(heap'[reqs[r].sess].state.pendingComparison)[n] = l
              /\ l \notin heap'[reqs[r].sess].state.comparedLevels]_vars

C29_OfferOnlyFromQuote ==
  [][\A o \in ObjIds :
       (heap[o].state.pendingComparison = <<>> /\ heap'[o].state.pendingComparison # <<>>)
         => \E r \in Reqs : /\ QuoteStep(r) /\ reqs[r].sess = o
                            /\ reqs'[r].reply.quote[1].offer = heap'[o].state.pendingComparison]_vars

\* a completed turn found no offer and has left one with its quote
C29_QuoteCreatedOffer ==
  \E r \in Reqs :
    /\ Completed(r) /\ reqs[r].reply.kind = "quote"
    /\ reqs[r].pre[1].state.pendingComparison = <<>>
    /\ StateOf(reqs[r].sess).pendingComparison # <<>>
    /\ reqs[r].reply.quote[1].offer = StateOf(reqs[r].sess).pendingComparison

\* C30: the draft that a turn creates holds, before the slots are extracted
\* from the utterance, the age, horsepower and city of lastPremium if
\* lastPremium exists when the draft is created and the turn had no
\* new-vehicle phrase, no age, horsepower and city otherwise, and never a
\* tier; so after the extraction each fact is the utterance's value, if it
\* carries one, and that initial value otherwise (the city defaulted to
\* "Other" when the flow goes on to the calculation).  On a later turn of a
\* draft the tier changes only to the tier of the utterance, so the tier of
\* a quote from such a draft comes from an utterance of the draft.
\* A turn creates a draft when it found none (or dropped it for a new-vehicle
\* phrase), accepted no offer and went through the premium flow; lastPremium
\* is then null after the new-vehicle reset and after the reset of a new
\* premium request, and else as the turn found it.
C30_NewDraftPrefill ==
  [][\A r \in Reqs :
       \A h \in {Heard[reqs'[r].transcript]} :
         LET Created ==
               /\ HeardStep(r)
               /\ "accepted" \notin reqs'[r].did
               /\ heap[reqs[r].sess].state.premium = <<>> \/ "newVehicle" \in reqs'[r].did
               /\ \/ reqs'[r].reply.kind \in {"askSlot", "quote"}
                  \/ reqs'[r].reply.kind = "error" /\ reqs'[r].reply.extra \in ValidationErrors
             lp == IF reqs'[r].did \cap {"newVehicle", "newPremium"} # {} THEN <<>>
                   ELSE heap[reqs[r].sess].state.lastPremium
             pre == lp # <<>> /\ ~h.wantsNewVehicle
             age == IF h.vehicleAge # NullNum THEN h.vehicleAge
                    ELSE IF pre THEN lp[1].vehicleAge ELSE NullNum
             hp == IF h.horsepower # NullNum THEN h.horsepower
                   ELSE IF pre THEN lp[1].horsepower ELSE NullNum
             city == IF h.city # NullStr THEN h.city
                     ELSE IF pre THEN lp[1].city ELSE NullStr
         IN /\ Created
                 => /\ DraftFacts(r).vehicleAge = age
                    /\ DraftFacts(r).horsepower = hp
                    /\ DraftFacts(r).city =
                         (IF reqs'[r].reply.kind # "askSlot" /\ city = NullStr THEN "Other" ELSE city)
                    /\ DraftFacts(r).coverageLevel = h.coverageLevel
            /\ (/\ HeardStep(r)
                /\ heap[reqs[r].sess].state.premium # <<>>
                /\ "newVehicle" \notin reqs'[r].did)
                 => DraftFacts(r).coverageLevel
                      \in {heap[reqs[r].sess].state.premium[1].coverageLevel, h.coverageLevel}]_vars

\* a completed turn has created a draft on a session with a lastPremium and
\* has quoted it at once: the horsepower is that of lastPremium, the age and
\* the tier are those of the utterance
C30_PrefilledDraftQuoted ==
  \E r \in Reqs :
    /\ Completed(r) /\ reqs[r].reply.kind = "quote" /\ reqs[r].did = {}
    /\ reqs[r].pre[1].state.premium = <<>>
    /\ reqs[r].pre[1].state.pendingComparison = <<>>
    /\ reqs[r].pre[1].state.lastPremium # <<>>
    /\ reqs[r].reply.quote[1].horsepower = reqs[r].pre[1].state.lastPremium[1].horsepower
    /\ reqs[r].reply.quote[1].vehicleAge = 10
    /\ reqs[r].reply.quote[1].vehicleAge # reqs[r].pre[1].state.lastPremium[1].vehicleAge
    /\ reqs[r].reply.quote[1].coverageLevel = "polni_kasko"

\* C31: the step that emits a quote clears the draft and makes lastPremium
\* the age, horsepower and city of the quoted draft, the city being "Other"
\* if none was captured; and no lastPremium ever holds an unset field or a
\* coverage tier.  The city captured is the one of the utterance, if the
\* draft has no pending slot and the utterance carries one, and else the one
\* the draft held: that of the draft the turn found, or that of lastPremium
\* in a draft created by this turn.
C31_LastPremiumIsQuotedVehicle ==
  [][\A r \in Reqs :
       /\ QuoteStep(r)
            => LET q == reqs'[r].reply.quote[1]
                   st == heap'[reqs[r].sess].state
                   pre == heap[reqs[r].sess].state
                   h == Heard[reqs'[r].transcript]
                   kept == pre.premium # <<>> /\ ~h.wantsNewVehicle
                   held == IF kept THEN pre.premium[1].city
                           ELSE IF reqs'[r].did \cap {"newVehicle", "newPremium"} # {} THEN NullStr
                           ELSE LastField(pre, "city")
                   all == ~kept \/ pre.premium[1].pendingSlot = NullStr
                   captured == IF all /\ h.city # NullStr THEN h.city ELSE held
               IN /\ st.premium = <<>>
                  /\ st.lastPremium =
                       <<[vehicleAge |-> q.vehicleAge, horsepower |-> q.horsepower, city |-> q.city]>>
                  /\ q.city = (IF captured = NullStr THEN "Other" ELSE captured)
       /\ \A o \in ObjIds :
            heap'[o].state.lastPremium # <<>>
              => /\ DOMAIN heap'[o].state.lastPremium[1] = {"vehicleAge", "horsepower", "city"}
                 /\ heap'[o].state.lastPremium[1].vehicleAge # NullNum
                 /\ heap'[o].state.lastPremium[1].horsepower # NullNum
                 /\ heap'[o].state.lastPremium[1].city \notin {NullStr, ""}]_vars

\* a completed turn has emitted a quote for a draft without a city: the
\* session has no draft, and lastPremium holds the quoted age and horsepower
\* and the city "Other"
C31_QuotedWithDefaultCity ==
  \E r \in Reqs :
    /\ Completed(r) /\ reqs[r].reply.kind = "quote"
    /\ Heard[reqs[r].transcript].city = NullStr
    /\ reqs[r].pre[1].state.lastPremium = <<>>
    /\ StateOf(reqs[r].sess).premium = <<>>
    /\ StateOf(reqs[r].sess).lastPremium = <<[vehicleAge |-> 5, horsepower |-> 150, city |-> "Other"]>>

\* C32 as stated: on a turn that finds a draft with a pending slot, only that
\* slot can change: the draft the turn leaves, or the quote it emits, has the
\* other two required slots and the city as the turn found them (an absent
\* city may become "Other" when the draft is complete).
C32_OnlyPendingSlotChanges ==
  [][\A r \in Reqs :
       (/\ HeardStep(r)
        /\ heap[reqs[r].sess].state.premium # <<>>
        /\ heap[reqs[r].sess].state.premium[1].pendingSlot # NullStr)
         => LET p0 == heap[reqs[r].sess].state.premium[1]
                post == IF heap'[reqs[r].sess].state.premium # <<>>
                          THEN heap'[reqs[r].sess].state.premium
                          ELSE reqs'[r].reply.quote
            IN /\ post # <<>>
               /\ \A f \in Slots \ {p0.pendingSlot} : post[1][f] = p0[f]
               /\ \/ post[1].city = p0.city
                  \/ p0.city = NullStr /\ post[1].city = "Other" /\ missingSlot(post[1]) = NullStr]_vars

\* C32, amended: the same, on the turns whose utterance has no new-vehicle
\* phrase (such a phrase discards the draft before the extraction).
C32_OnlyPendingSlotChangesUnlessNewVehicle ==
  [][\A r \in Reqs :
       (/\ HeardStep(r)
        /\ heap[reqs[r].sess].state.premium # <<>>
        /\ heap[reqs[r].sess].state.premium[1].pendingSlot # NullStr
        /\ ~Heard[reqs'[r].transcript].wantsNewVehicle)
         => LET p0 == heap[reqs[r].sess].state.premium[1]
                post == IF heap'[reqs[r].sess].state.premium # <<>>
                          THEN heap'[reqs[r].sess].state.premium
                          ELSE reqs'[r].reply.quote
            IN /\ post # <<>>
               /\ \A f \in Slots \ {p0.pendingSlot} : post[1][f] = p0[f]
               /\ \/ post[1].city = p0.city
                  \/ p0.city = NullStr /\ post[1].city = "Other" /\ missingSlot(post[1]) = NullStr]_vars

\* a completed turn found a draft that was asking for the age, heard an
\* utterance that carries an age and a coverage tier, and left a draft with
\* that age and still without a tier
C32_TierIgnoredWhileAgePending ==
  \E r \in Reqs :
    /\ Completed(r)
    /\ reqs[r].pre[1].state.premium # <<>>
    /\ reqs[r].pre[1].state.premium[1].pendingSlot = "vehicleAge"
    /\ Heard[reqs[r].transcript].coverageLevel # NullStr
    /\ Heard[reqs[r].transcript].vehicleAge # NullNum
    /\ ~Heard[reqs[r].transcript].wantsNewVehicle
    /\ StateOf(reqs[r].sess).premium # <<>>
    /\ StateOf(reqs[r].sess).premium[1].vehicleAge = Heard[reqs[r].transcript].vehicleAge
    /\ StateOf(reqs[r].sess).premium[1].coverageLevel = NullStr

\* C33: a turn that finds a draft asking for a slot and hears a valid value
\* for that slot (an age of 0..40, a horsepower of 20..600, a tier) emits a
\* quote, or asks for another slot and leaves a draft with fewer unknown
\* required slots; as a draft has at most three of them, a quote follows the
\* premium request after at most three such turns.  The draft is one that
\* valid answers lead to: a draft that asks for the age holds what the turn
\* that created it heard, a draft that asks for a later slot holds an age
\* and a horsepower in range or none.
C33_ValidAnswersReachQuote ==
  [][\A r \in Reqs :
       HeardStep(r) /\ heap[reqs[r].sess].state.premium # <<>>
         => LET p0 == heap[reqs[r].sess].state.premium[1]
                post == heap'[reqs[r].sess].state.premium
                h == Heard[reqs'[r].transcript]
                valid == \/ p0.pendingSlot = "vehicleAge" /\ h.vehicleAge \in 0..MaxAge
                         \/ p0.pendingSlot = "horsepower" /\ h.horsepower \in MinHp..MaxHp
                         \/ p0.pendingSlot = "coverageLevel" /\ h.coverageLevel # NullStr
                led == \/ p0.pendingSlot = "vehicleAge"
                       \/ /\ p0.vehicleAge \in 0..MaxAge
                          /\ p0.horsepower \in (MinHp..MaxHp) \cup {NullNum}
            IN valid /\ led
                 => \/ reqs'[r].reply.kind = "quote"
                    \/ /\ reqs'[r].reply.kind = "askSlot"
                       /\ post # <<>>
                       /\ post[1].pendingSlot # p0.pendingSlot
                       /\ ({f \in {"vehicleAge", "horsepower"} : post[1][f] = NullNum}
                             \cup {f \in {"coverageLevel"} : post[1][f] = NullStr})
                            \subseteq ({f \in {"vehicleAge", "horsepower"} : p0[f] = NullNum}
                                         \cup {f \in {"coverageLevel"} : p0[f] = NullStr})
                                        \ {p0.pendingSlot}]_vars

\* C34: with no comparison pending, isPremiumIntent is true exactly if the
\* utterance has calculation wording, or is no information question and
\* either mentions coverage together with a slot hint or requests a
\* comparison while lastPremium exists (the decision list: information
\* question without calculation wording false, else calculation wording
\* true, else coverage with slot hint true, else comparison request with
\* lastPremium true, else false).
C34_IntentDecisionList ==
  (call.fn = "isPremiumIntent" /\ call.result # <<>> /\ call.args[2].pendingComparison = <<>>)
    => (call.result[1]
          <=> \/ call.args[1].hasCalcWording
              \/ /\ ~call.args[1].looksLikeInfoQuestion
                 /\ \/ call.args[1].mentionsCoverage /\ call.args[1].hasAnyPremiumSlotHints
                    \/ call.args[1].wantsComparison /\ call.args[2].lastPremium # <<>>)

\* isPremiumIntent has answered true for an information question with
\* calculation wording, no coverage mention and no comparison request, with
\* no comparison pending
C34_InfoQuestionWithCalcWording ==
  /\ call.fn = "isPremiumIntent" /\ call.result = <<TRUE>>
  /\ call.args[2].pendingComparison = <<>>
  /\ call.args[1].looksLikeInfoQuestion /\ call.args[1].hasCalcWording
  /\ ~call.args[1].mentionsCoverage /\ ~call.args[1].wantsComparison

\* C35: in the transcript of every session a user message that is not the
\* last message is followed at once by the assistant message of the same
\* turn (the last message may be a user message whose reply has yet to come).
C35_ReplyFollowsItsUtterance ==
  \A o \in ObjIds : \A i \in 1..(Len(heap[o].messages) - 1) :
    heap[o].messages[i].role = "user"
      => heap[o].messages[i + 1] = [role |-> "assistant", turn |-> heap[o].messages[i].turn]

\* C36: the hits of retrieveDocs(query, docs, k) are at most k, each has a
\* score above 0, they stand by falling score with equal scores in corpus
\* order, and no document left out has a score above 0 unless there are k
\* hits and each of them is ahead of it (a higher score, or the same score
\* and an earlier place in the corpus); and the context of the turn is the
\* hits, or the first k documents of the corpus if there is no hit.
C36_TopKByScore ==
  (call.fn = "retrieveDocs" /\ call.result # <<>>)
    => LET hits == call.result[1].hits
           docs == call.args[2]
           k == call.args[3]
           q == {call.args[1][n] : n \in 1..Len(call.args[1])}
           score == [i \in 1..Len(docs) |->
                       IF call.args[4] THEN Cardinality({n \in 1..Len(docs[i]) : docs[i][n] \in q})
                       ELSE Cardinality({w \in q : \E n \in 1..Len(docs[i]) : docs[i][n] = w})]
           chosen == {hits[n].id : n \in 1..Len(hits)}
       IN /\ Len(hits) <= k
          /\ \A n \in 1..Len(hits) :
               hits[n].id \in 1..Len(docs) /\ hits[n].score = score[hits[n].id] /\ hits[n].score > 0
          /\ \A m, n \in 1..Len(hits) :
               m < n => \/ hits[m].score > hits[n].score
                        \/ hits[m].score = hits[n].score /\ hits[m].id < hits[n].id
          /\ \A d \in (1..Len(docs)) \ chosen :
               score[d] > 0
                 => /\ Len(hits) = k
                    /\ \A n \in 1..Len(hits) :
                         \/ hits[n].score > score[d]
                         \/ hits[n].score = score[d] /\ hits[n].id < d
          /\ call.result[1].contextDocs =
               (IF hits # <<>> THEN [n \in 1..Len(hits) |-> hits[n].id]
                ELSE SubSeq([n \in 1..Len(docs) |-> n], 1, IF k < Len(docs) THEN k ELSE Len(docs)))

\* the retriever has returned k = 2 hits of the same score, and left out a
\* document of that score that stands later in the corpus
C36_TieCutByCorpusOrder ==
  /\ call.fn = "retrieveDocs" /\ call.result # <<>>
  /\ call.args[3] = 2 /\ Len(call.args[2]) = 3
  /\ Len(call.result[1].hits) = 2
  /\ call.result[1].hits[1].score = call.result[1].hits[2].score
  /\ <<call.result[1].hits[1].id, call.result[1].hits[2].id>> = <<1, 2>>
  /\ call.args[2][3] = call.args[2][2]

IsUserMessage(m) == m.role = "user"

\* the utterances of the turns whose user messages ms are, in that order
UtterancesOf(ms) ==
  [n \in 1..Len(ms) |-> reqs[CHOOSE q \in Reqs : reqs[q].turn = ms[n].turn].transcript]

\* the dialogue state after the state updates of the turns that heard the
\* utterances us, run one after the other on state
RECURSIVE Replay(_, _)
Replay(state, us) ==
  IF Len(us) = 0 THEN state
  ELSE Replay(TurnState(state, Heard[us[1]]).state, SubSeq(us, 2, Len(us)))

\* C37: the dialogue state of a session is at every moment the result of the
\* whole state updates of its turns run one after the other: for a request
\* in flight or answered, the state of its session equals the state that
\* the request found when it began, updated in turn by each turn that has
\* pushed its user message since (in the order of those messages), also
\* when the turns overlap.
C37_StateIsSerialReplay ==
  \A r \in Reqs :
    (reqs[r].sess # 0 /\ reqs[r].pre # <<>>)
      => LET o == reqs[r].sess
             p == reqs[r].pre[1]
             since == SelectSeq(SubSeq(heap[o].messages, Len(p.messages) + 1, Len(heap[o].messages)),
                                IsUserMessage)
         IN (\A n \in 1..Len(since) : \E q \in Reqs : reqs[q].turn = since[n].turn)
              => heap[o].state = Replay(p.state, UtterancesOf(since))

\* two turns of one session were in flight at once, began on the same
\* session state, and updated it in the order opposite to their arrival; the
\* state is that of the two updates run in that order, which differs from
\* the state of the order of arrival
C37_OverlappingTurnsBothUpdated ==
  \E r, q \in Reqs :
    /\ reqs[r].sess # 0 /\ reqs[r].sess = reqs[q].sess
    /\ reqs[r].turn < reqs[q].turn
    /\ reqs[r].pre = reqs[q].pre /\ reqs[r].pre # <<>>
    /\ reqs[r].pc \in {"llm", "tts"} /\ reqs[q].pc \in {"llm", "tts"}
    /\ StateOf(reqs[r].sess) = Replay(reqs[r].pre[1].state, <<reqs[q].transcript, reqs[r].transcript>>)
    /\ StateOf(reqs[r].sess) # Replay(reqs[r].pre[1].state, <<reqs[r].transcript, reqs[q].transcript>>)

\* C38: a POST /reset for a key leaves the turns in flight on that key with
\* a session object that the sessions map no longer holds; a step of a turn
\* whose session object the map does not hold under the turn's key changes
\* neither the map nor any session object the map holds; and a turn that
\* begins on a key without a session begins on the initial session, in an
\* object that no turn in flight holds.
C38_ResetCutsOffTurnsInFlight ==
  [][/\ \A k \in Keys :
          Reset(k) => \A q \in Reqs : (~Finished(q) /\ reqs[q].key = k)
                                        => /\ reqs'[q].sess = reqs[q].sess
                                           /\ sessions'[k] # reqs'[q].sess
     /\ \A q \in Reqs :
          (~Finished(q) /\ sessions[reqs[q].key] # reqs[q].sess /\ reqs'[q] # reqs[q])
            => /\ sessions' = sessions
               /\ \A k \in Keys : sessions[k] # 0 => heap'[sessions[k]] = heap[sessions[k]]
     /\ \A r \in Reqs, k \in Keys :
          (Finished(r) /\ reqs'[r].pc = "stt" /\ reqs'[r].key = k /\ sessions[k] = 0)
            => /\ sessions'[k] = reqs'[r].sess
               /\ heap'[reqs'[r].sess] = InitSession
               /\ \A q \in Reqs \ {r} : ~Finished(q) => reqs[q].sess # reqs'[r].sess]_vars

\* a turn went on after a reset of its key: it has pushed its user message
\* into the session object it holds, while a later turn on the same key
\* awaits its transcription on the initial session in another object, the
\* one the sessions map holds
C38_LateWriteMissesNewSession ==
  \E q, r \in Reqs :
    /\ reqs[q].pc \in {"llm", "tts"} /\ reqs[r].pc = "stt"
    /\ reqs[q].key = reqs[r].key /\ reqs[q].turn < reqs[r].turn
    /\ reqs[q].sess # reqs[r].sess
    /\ sessions[reqs[r].key] = reqs[r].sess
    /\ heap[reqs[r].sess] = InitSession
    /\ Len(heap[reqs[q].sess].messages) > Len(InitSession.messages)

\* C39: in every session with a comparison offer outstanding, lastPremium
\* exists and its age, horsepower and city are set, comparedLevels is not
\* empty, and the options of the offer are a non-empty list of tiers out of
\* delni_kasko and polni_kasko, none of them twice.
C39_OfferRestsOnQuotedVehicle ==
  \A o \in ObjIds :
    StateOf(o).pendingComparison # <<>>
      => /\ StateOf(o).lastPremium # <<>>
         /\ StateOf(o).lastPremium[1].vehicleAge # NullNum
         /\ StateOf(o).lastPremium[1].horsepower # NullNum
         /\ StateOf(o).lastPremium[1].city \notin {NullStr, ""}
         /\ StateOf(o).comparedLevels # {}
         /\ Len(StateOf(o).pendingComparison[1].options) \in {1, 2}
         /\ \A n \in 1..Len(StateOf(o).pendingComparison[1].options) :
              StateOf(o).pendingComparison[1].options[n] \in {"delni_kasko", "polni_kasko"}
         /\ \A m, n \in 1..Len(StateOf(o).pendingComparison[1].options) :
              m # n => StateOf(o).pendingComparison[1].options[m]
                         # StateOf(o).pendingComparison[1].options[n]

\* a session holds the offer of delni_kasko alone, after the quote of
\* polni_kasko for a vehicle in Maribor
C39_OfferOfPartialAfterFull ==
  \E o \in ObjIds :
    /\ StateOf(o).pendingComparison = <<[options |-> <<"delni_kasko">>]>>
    /\ StateOf(o).comparedLevels = {"polni_kasko"}
    /\ StateOf(o).lastPremium = <<[vehicleAge |-> 5, horsepower |-> 150, city |-> "Maribor"]>>

\* C40: a turn that finds an active draft and hears an utterance without a
\* new-vehicle phrase goes through the slot filling, whatever else the
\* utterance is: it does not call the answering collaborator, and it ends
\* with the question for a slot, with a quote, or in the validation error
\* thrown by the calculator on the complete draft.
C40_ActiveDraftKeepsSlotFilling ==
  [][\A r \in Reqs :
       (/\ HeardStep(r)
        /\ heap[reqs[r].sess].state.premium # <<>>
        /\ ~Heard[reqs'[r].transcript].wantsNewVehicle)
         => /\ reqs'[r].pc # "llm"
            /\ \/ reqs'[r].pc = "tts" /\ reqs'[r].reply.kind \in {"askSlot", "quote"}
               \/ /\ reqs'[r].pc = "done" /\ reqs'[r].status = 500
                  /\ reqs'[r].reply.extra \in ValidationErrors
                  /\ missingSlot(heap'[reqs[r].sess].state.premium[1]) = NullStr]_vars

\* a completed turn found a draft, heard an information question without a
\* new-vehicle phrase, and answered with the question for the pending slot,
\* the draft unchanged
C40_InfoQuestionMetBySlotQuestion ==
  \E r \in Reqs :
    /\ Completed(r) /\ reqs[r].reply.kind = "askSlot"
    /\ reqs[r].pre[1].state.premium # <<>>
    /\ Heard[reqs[r].transcript].looksLikeInfoQuestion
    /\ ~Heard[reqs[r].transcript].hasCalcWording
    /\ ~Heard[reqs[r].transcript].wantsNewVehicle
    /\ StateOf(reqs[r].sess).premium = reqs[r].pre[1].state.premium

====
